---- MODULE Spec2Model ----
(***************************************************************************)
(* State-machine model of the batching / validator-assignment             *)
(* orchestration of papi-polkadot-populate (src/src/solo-nominators.ts,   *)
(* src/src/nomination-pools.ts, src/src/account-management.ts).  One run  *)
(* of one operation is modelled:                                          *)
(* the operation and its inputs are chosen in Init, the actions are the   *)
(* steps of that operation between two suspension points.                 *)
(***************************************************************************)
EXTENDS Integers, Sequences, FiniteSets, TLC

(* ---------------------------------------------------------------------- *)
(* Bounds of the model                                                     *)
(* ---------------------------------------------------------------------- *)
MaxNominators == 3
MaxValidators == 3
MaxPerNominator == 3
MaxStartCursor == 4
MaxBatch == 2
MaxParallel == 2
MaxExisting == 3
MaxBalance == 2
MaxPools == 2
PoolStake == 10
MaxGodBalance == 6
MinNominatorBond == 18
MainNominators == 2
MaxMembers == 3
maxPoolMembers == 2
ScanTail == 2
CrowdedTarget == 2
CrowdedBatch == 3
MaxPopulated == 12

(* ---------------------------------------------------------------------- *)
(* Program constants                                                       *)
(* ---------------------------------------------------------------------- *)
DefaultStakeBatchSize == 100
DefaultTransferBatchSize == 1000
DefaultCheckBatchSize == 50
DefaultTopupBatchSize == 500
MaxTransferBatch == 1500
MaxStakeBatch == 250
MaxParallelBatches == 10
maxChecks == 10000

(* The documented stake-only example run (unnamed/part_000:133-184).      *)
ExampleNominators == 10
ExampleFirstAccount == 43
ExampleValidatorsPerNominator == 16
ExampleValidatorsOnChain == 150
ExampleNextValidatorIndex == 10

VARIABLES
    op,                     \* the operation this run executes
    pc,                     \* position inside the operation
    returned,               \* "no" | "value" | "undefined" | "thrown"
    isDryRun, noWait, skipCheckAccount, parallelBatches,
    chainValidators,        \* Staking.Validators keys on chain
    ledgerOnChain,          \* accounts with a Staking.Ledger entry
    nominatorsOnChain,      \* accounts with a Staking.Nominators entry
    writeCalls,             \* calls of signAndSubmit / signSubmitAndWatch
    existenceQueries,       \* reads of the account-existence queries
    batch,                  \* the batch being built (account indices)
    batches,                \* every batch handed to execution, in order
    txs,                    \* the transactions of the batch in flight
    chunkStart,             \* first transaction of the chunk being awaited
    createdAccountIndices, batchSize,
    validatorsPerNominator, validatorStartIndex,
    allValidators, validatorAssignments, currentValidatorIndex,
    processedIndex, stakedCount, skippedCount,
    nextValidatorIndex,
    targetCount, startIndex, checkBatchArg,
    existsOnChain,          \* derived accounts with System.Account providers > 0
    availableIndices, currentCheckIndex, totalChecked,
    createdCount, processedIndices,
    fromIndex, toIndex, targetAmount,
    freeBalance,            \* System.Account data.free of the derived accounts
    accountsToTopup, totalTopupNeeded, counter, processedCount, toppedUpCount,
    hybridCount, createdPoolIds,
    loopIndex,              \* the loop variable i of the pool operations
    txStep,                 \* which executeTransaction of the iteration is awaited
    selectedValidators, createdHybrids,
    poolIds,                \* destroyPools: the pools named on the command line
    poolKind,               \* what the chain holds for each pool id
    poolCount, maxPools, createdPools, totalFundingNeeded,
    parseOk, poolExists, creatorIsLastOfOpenPool, membersToProcess,
    accountIndices, accountKind, accountsToUnbond,
    results,                \* the `results` counters of the clean-up commands
    stakeAmounts,           \* the Map from account index to planned stake amount
    godBalance,             \* System.Account data.free of the god account
    mode,                   \* the branch of main() the command line selects
    cliError,               \* the validation error in the command line, or "none"
    mainPc,                 \* position inside main()
    exitCode,               \* the exit code, once mainPc = "exited"
    opened, closed,         \* connections opened (smoldot started) / torn down
    transferBatch, stakeBatch, \* the parsed --transfer-batch / --stake-batch options
    lastPoolId,             \* NominationPools.LastPoolId: the highest pool id on chain
    poolsOfRun,             \* the ids the chain gave to the pools this run created
    memberCount, createdMembers,
    joinedPoolIds,          \* the pool_id of every join transaction submitted
    populated,              \* listAccounts: accounts 1 .. populated exist on chain
    low, high, lastFound    \* the locals of findAccountRange

ctlVars == <<op, pc, returned>>
flagVars == <<isDryRun, noWait, skipCheckAccount, parallelBatches>>
mainVars == <<godBalance, mode, cliError, mainPc, exitCode, opened, closed,
              transferBatch, stakeBatch>>
memberVars == <<lastPoolId, poolsOfRun, memberCount, createdMembers, joinedPoolIds>>
rangeVars == <<populated, low, high, lastFound>>
chainVars == <<chainValidators, ledgerOnChain, nominatorsOnChain>>
ioVars == <<writeCalls, existenceQueries>>
batchVars == <<batch, batches, txs, chunkStart>>
stakeInputs == <<createdAccountIndices, batchSize, validatorsPerNominator,
                 validatorStartIndex>>
stakeLocals == <<allValidators, validatorAssignments, currentValidatorIndex,
                 processedIndex, stakedCount, skippedCount, nextValidatorIndex>>
stakeVars == <<stakeInputs, stakeLocals>>
createInputs == <<targetCount, startIndex, checkBatchArg, existsOnChain>>
createLocals == <<availableIndices, currentCheckIndex, totalChecked, createdCount,
                  processedIndices>>
createVars == <<createInputs, createLocals>>
topupInputs == <<fromIndex, toIndex, targetAmount, freeBalance>>
topupLocals == <<accountsToTopup, totalTopupNeeded, counter, processedCount,
                 toppedUpCount>>
topupVars == <<topupInputs, topupLocals>>
hybridInputs == <<hybridCount, createdPoolIds>>
hybridLocals == <<loopIndex, txStep, selectedValidators, createdHybrids>>
hybridVars == <<hybridInputs, hybridLocals>>
destroyVars == <<poolIds, poolKind>>
createPoolsVars == <<poolCount, maxPools, createdPools, totalFundingNeeded>>
removeVars == <<parseOk, poolExists, creatorIsLastOfOpenPool, membersToProcess>>
unbondVars == <<accountIndices, accountKind, accountsToUnbond>>
poolCmdVars == <<destroyVars, createPoolsVars, removeVars, unbondVars, results>>
vars == <<ctlVars, flagVars, mainVars, memberVars, rangeVars, stakeAmounts, chainVars, ioVars, batchVars, stakeInputs, stakeLocals,
          createVars, topupVars, hybridVars, poolCmdVars>>

\* the variables only stakeAndNominate uses
stakeOnly == <<validatorsPerNominator, validatorStartIndex, allValidators,
               validatorAssignments, currentValidatorIndex, processedIndex, stakedCount,
               nextValidatorIndex, chainVars>>
\* what each operation never touches
notStake == <<createVars, topupVars, hybridVars, poolCmdVars>>
notCreate == <<stakeOnly, topupVars, hybridVars, poolCmdVars>>
notTopup == <<stakeOnly, createVars, createdAccountIndices, hybridVars, poolCmdVars>>
soloOnly == <<createVars, topupVars, createdAccountIndices, batchSize, ledgerOnChain,
              nominatorsOnChain, validatorAssignments, processedIndex, stakedCount,
              skippedCount, existenceQueries, batch, batches, chunkStart>>
notHybrid == <<soloOnly, poolCmdVars>>
\* everything but the transactions in flight
allButTxs == <<ctlVars, flagVars, mainVars, memberVars, rangeVars, stakeAmounts, chainVars, ioVars, batch, batches, chunkStart,
               stakeInputs, stakeLocals, createVars, topupVars, hybridVars, poolCmdVars>>

(* ---------------------------------------------------------------------- *)
(* Helpers                                                                 *)
(* ---------------------------------------------------------------------- *)
Min(a, b) == IF a < b THEN a ELSE b

\* the JavaScript number NaN (no cursor or count of the model is negative)
NaN == -2

Range(s) == {s[i] : i \in 1..Len(s)}

\* accounts ///first .. ///(first + n - 1), in order
AccountList(first, n) == [i \in 1..n |-> first + i - 1]

\* the validator addresses of a chain with n validators (distinct storage keys)
ValidatorSet(n) == [i \in 1..n |-> 100 + i]

\* error messages handed to a subscription's error callback, by the marker
\* substring they contain ("dispatch" contains none of the markers)
ErrorMessages == {"ChainHead operation inaccessible", "OperationInaccessibleError",
                  "connection", "network", "dispatch"}

\* nomination-pools.ts executeTransaction: two substrings only
isPoolInfrastructureError(errorMessage) ==
    errorMessage \in {"ChainHead operation inaccessible", "OperationInaccessibleError"}

\* solo-nominators.ts: errorMessage.includes(...) || ... (four substrings)
isInfrastructureError(errorMessage) ==
    errorMessage \in {"ChainHead operation inaccessible", "OperationInaccessibleError",
                      "connection", "network"}

\* a transaction that is awaited: the promise, the `completed` flag, the
\* 30 s timer and the subscription of one `new Promise(...)` block
NewWatchedTx == [promise |-> "pending", completed |-> FALSE, timer |-> "armed",
                 subscribed |-> TRUE, stream |-> "open", settledBy |-> "none"]

\* a fire-and-forget submission that subscribes to the transaction's lifecycle
NewSubmittedTxWatched ==
    [promise |-> "pending", completed |-> FALSE, timer |-> "armed",
     subscribed |-> TRUE, stream |-> "open", settledBy |-> "none"]

\* a fire-and-forget submission: the promise of the async submit function
NewSubmittedTx == [promise |-> "pending", completed |-> FALSE, timer |-> "none",
                   subscribed |-> FALSE, stream |-> "none", settledBy |-> "none"]

\* an inclusion handler without the completed flag: it resolves and leaves the
\* timer and the subscription as they are
SoloOnIncludedKeepsWaiting(tx) ==
    IF ~tx.completed
    THEN [tx EXCEPT !.promise = "resolved", !.settledBy = "included"]
    ELSE tx

\* next: txBestBlocksState -- if (!completed) { completed = true;
\* clearTimeout(timeout); subscription.unsubscribe(); resolve(null) }
SoloOnIncluded(tx) ==
    IF ~tx.completed
    THEN [tx EXCEPT !.completed = TRUE, !.timer = "cleared", !.subscribed = FALSE,
                    !.promise = "resolved", !.settledBy = "included"]
    ELSE tx

\* error: an infrastructure error is warned about and resolves; any other error
\* rejects and returns before the unsubscribe
SoloOnError(tx, errorMessage) ==
    IF ~tx.completed
    THEN IF isInfrastructureError(errorMessage)
         THEN [tx EXCEPT !.completed = TRUE, !.timer = "cleared", !.stream = "closed",
                         !.subscribed = FALSE, !.promise = "resolved",
                         !.settledBy = "infraError"]
         ELSE [tx EXCEPT !.completed = TRUE, !.timer = "cleared", !.stream = "closed",
                         !.promise = "rejected", !.settledBy = "error"]
    ELSE [tx EXCEPT !.stream = "closed"]

\* complete(): resolves
SoloOnComplete(tx) ==
    IF ~tx.completed
    THEN [tx EXCEPT !.completed = TRUE, !.timer = "cleared", !.stream = "closed",
                    !.subscribed = FALSE, !.promise = "resolved",
                    !.settledBy = "complete"]
    ELSE [tx EXCEPT !.stream = "closed"]

\* the timer callback that throws the timeout instead of resolving
SoloOnTimeoutRejects(tx) ==
    IF ~tx.completed
    THEN [tx EXCEPT !.completed = TRUE, !.timer = "fired", !.subscribed = FALSE,
                    !.promise = "rejected", !.settledBy = "timeout"]
    ELSE [tx EXCEPT !.timer = "fired"]

\* setTimeout(..., 30000): if (!completed) { completed = true;
\* subscription.unsubscribe(); resolve(null) }
SoloOnTimeout(tx) ==
    IF ~tx.completed
    THEN [tx EXCEPT !.completed = TRUE, !.timer = "fired", !.subscribed = FALSE,
                    !.promise = "resolved", !.settledBy = "timeout"]
    ELSE [tx EXCEPT !.timer = "fired"]

\* signAndSubmit settled inside try/catch: the async function always fulfils
SubmitSettled(tx, accepted) ==
    [tx EXCEPT !.promise = "resolved",
               !.settledBy = IF accepted THEN "submitted" ELSE "submitFailed"]

\* executeTransaction, error: resolve on an infrastructure error, reject
\* otherwise; the subscription is unsubscribed in both cases
PoolOnError(tx, errorMessage) ==
    IF ~tx.completed
    THEN [tx EXCEPT !.completed = TRUE, !.timer = "cleared", !.stream = "closed",
                    !.subscribed = FALSE,
                    !.promise = IF isPoolInfrastructureError(errorMessage)
                                THEN "resolved" ELSE "rejected",
                    !.settledBy = IF isPoolInfrastructureError(errorMessage)
                                  THEN "infraError" ELSE "error"]
    ELSE [tx EXCEPT !.stream = "closed"]

\* executeTransaction with noWait: a failed signAndSubmit is logged and rethrown
PoolSubmitSettled(tx, accepted) ==
    [tx EXCEPT !.promise = IF accepted THEN "resolved" ELSE "rejected",
               !.settledBy = IF accepted THEN "submitted" ELSE "submitFailed"]

\* the clean-up commands (destroyPools, removeFromPool, unbondAccounts): a
\* handler that settles the wait -- if (!completed) { completed = true;
\* clearTimeout(timeout); subscription.unsubscribe(); ...; resolve / reject }
CmdSettle(tx, outcome, by) ==
    IF ~tx.completed
    THEN [tx EXCEPT !.completed = TRUE, !.timer = "cleared", !.subscribed = FALSE,
                    !.promise = outcome, !.settledBy = by]
    ELSE tx

\* the clean-up commands: the 30 s timer rejects the wait
CmdOnTimeout(tx) ==
    IF ~tx.completed
    THEN [tx EXCEPT !.completed = TRUE, !.timer = "fired", !.subscribed = FALSE,
                    !.promise = "rejected", !.settledBy = "timeout"]
    ELSE [tx EXCEPT !.timer = "fired"]

\* an event can be delivered to the handlers of tx
Delivers(tx) == tx.subscribed /\ tx.stream = "open"

(* ---------------------------------------------------------------------- *)
(* Validator assignment (stakeAndNominate, createHybridStakers)            *)
(* ---------------------------------------------------------------------- *)
\* the window without the `j < validators.length` bound
SelectValidatorsUncapped(cursor, perNominator, validators) ==
    IF Len(validators) = 0
    THEN <<>>
    ELSE [j \in 1..perNominator |->
             validators[((cursor + (j - 1)) % Len(validators)) + 1]]

\* the window that starts one position after the cursor
SelectValidatorsFromNext(cursor, perNominator, validators) ==
    [j \in 1..Min(perNominator, Len(validators)) |->
        validators[((cursor + j) % Len(validators)) + 1]]

\* for (j = 0; j < perNominator && j < validators.length; j++)
\*   push validators[(cursor + j) % validators.length]
SelectValidators(cursor, perNominator, validators) ==
    [j \in 1..Min(perNominator, Len(validators)) |->
        validators[((cursor + (j - 1)) % Len(validators)) + 1]]

\* the cursor advanced by the number of validators actually selected
AdvanceCursorByWindow(cursor, perNominator, validators) ==
    IF Len(validators) = 0 \/ cursor = NaN
    THEN NaN
    ELSE (cursor + Min(perNominator, Len(validators))) % Len(validators)

\* the cursor advanced without wrapping around the validator set
AdvanceCursorNoWrap(cursor, perNominator, validators) ==
    IF Len(validators) = 0 \/ cursor = NaN
    THEN NaN
    ELSE cursor + perNominator

\* the cursor that is not advanced between nominators
AdvanceCursorStays(cursor, perNominator, validators) ==
    IF Len(validators) = 0 \/ cursor = NaN
    THEN NaN
    ELSE cursor

\* currentValidatorIndex = (currentValidatorIndex + perNominator) % validators.length
\* (x % 0 is NaN, and NaN stays NaN)
AdvanceCursor(cursor, perNominator, validators) ==
    IF Len(validators) = 0 \/ cursor = NaN
    THEN NaN
    ELSE (cursor + perNominator) % Len(validators)

\* the pre-calculation loop over createdAccountIndices: the assignment table
\* (a Map, so a repeated account index keeps its last window) and the cursor
RECURSIVE AssignLoop(_, _, _, _, _, _)
AssignLoop(accounts, i, cursor, perNominator, validators, table) ==
    IF i > Len(accounts)
    THEN [assignments |-> table, cursor |-> cursor]
    ELSE AssignLoop(accounts, i + 1,
                    AdvanceCursor(cursor, perNominator, validators),
                    perNominator, validators,
                    [a \in (DOMAIN table) \cup {accounts[i]} |->
                        IF a = accounts[i]
                        THEN SelectValidators(cursor, perNominator, validators)
                        ELSE table[a]])

EmptyTable == [a \in {} |-> <<>>]

\* no pool member is created and no account range is searched
MembersUnused ==
    /\ poolsOfRun = {} /\ memberCount = 0 /\ createdMembers = 0
    /\ joinedPoolIds = <<>>

RangeUnused == populated = 0 /\ low = 0 /\ high = 0 /\ lastFound = 0

\* the operation is called on its own: main() is not running, and the
\* stakeAmounts map it is handed is new
CalledDirectly ==
    /\ mode = "none" /\ cliError = "none" /\ mainPc = "none"
    /\ exitCode = 0 /\ opened = 0 /\ closed = 0
    /\ stakeAmounts = <<>>
    /\ transferBatch = 0 /\ stakeBatch = 0
    /\ MembersUnused /\ RangeUnused

(* ---------------------------------------------------------------------- *)
(* Variables an operation does not use                                     *)
(* ---------------------------------------------------------------------- *)
CreateUnused ==
    /\ targetCount = 0 /\ startIndex = 1 /\ checkBatchArg = 0
    /\ existsOnChain = {}
    /\ availableIndices = <<>> /\ currentCheckIndex = 0 /\ totalChecked = 0
    /\ createdCount = 0 /\ processedIndices = 0

TopupUnused ==
    /\ fromIndex = 0 /\ toIndex = 0 /\ targetAmount = 0
    /\ freeBalance = <<>>
    /\ accountsToTopup = <<>> /\ totalTopupNeeded = 0 /\ counter = 0
    /\ processedCount = 0 /\ toppedUpCount = 0

NoResults == <<>>

DestroyUnused == poolIds = <<>> /\ poolKind = <<>>

CreatePoolsUnused ==
    poolCount = 0 /\ maxPools = 0 /\ createdPools = <<>> /\ totalFundingNeeded = 0

RemoveUnused ==
    /\ parseOk = FALSE /\ poolExists = FALSE /\ creatorIsLastOfOpenPool = FALSE
    /\ membersToProcess = <<>>

UnbondUnused == accountIndices = <<>> /\ accountKind = <<>> /\ accountsToUnbond = <<>>

PoolCmdUnused ==
    /\ DestroyUnused /\ CreatePoolsUnused /\ RemoveUnused /\ UnbondUnused
    /\ results = NoResults

HybridUnused ==
    /\ hybridCount = 0 /\ createdPoolIds = <<>>
    /\ loopIndex = 0 /\ txStep = 0 /\ selectedValidators = <<>> /\ createdHybrids = 0

StakeUnused ==
    /\ validatorsPerNominator = 0 /\ validatorStartIndex = 0
    /\ chainValidators = <<>> /\ ledgerOnChain = {} /\ nominatorsOnChain = {}
    /\ allValidators = <<>> /\ validatorAssignments = EmptyTable
    /\ currentValidatorIndex = 0 /\ processedIndex = 0 /\ stakedCount = 0
    /\ nextValidatorIndex = -1

\* the variables of the solo-nominator operations, for the pool commands
SoloUnused ==
    /\ StakeUnused /\ CreateUnused /\ TopupUnused
    /\ createdAccountIndices = <<>> /\ batchSize = 0 /\ skippedCount = 0
    /\ batch = <<>> /\ batches = <<>> /\ chunkStart = 0 /\ existenceQueries = 0

(* ---------------------------------------------------------------------- *)
(* stakeAndNominate                                                        *)
(* ---------------------------------------------------------------------- *)
\* const stakeBatchSize = batchSize || 100
stakeBatchSize == IF batchSize = 0 THEN DefaultStakeBatchSize ELSE batchSize

StakeDefaults ==
    /\ op = "stakeAndNominate"
    /\ pc = "queryValidators"
    /\ returned = "no"
    /\ writeCalls = 0
    /\ existenceQueries = 0
    /\ batch = <<>>
    /\ batches = <<>>
    /\ txs = <<>>
    /\ chunkStart = 0
    /\ allValidators = <<>>
    /\ validatorAssignments = EmptyTable
    /\ currentValidatorIndex = validatorStartIndex
    /\ processedIndex = 0
    /\ stakedCount = 0
    /\ skippedCount = 0
    /\ nextValidatorIndex = -1
    /\ CreateUnused
    /\ TopupUnused
    /\ HybridUnused
    /\ PoolCmdUnused

\* wide assignment inputs, fire-and-forget over fresh accounts
InitStakePlan ==
    /\ \E n \in 0..MaxNominators : createdAccountIndices = AccountList(1, n)
    /\ validatorsPerNominator \in 1..MaxPerNominator
    /\ validatorStartIndex \in 0..MaxStartCursor
    /\ chainValidators \in {ValidatorSet(v) : v \in 0..MaxValidators}
    /\ batchSize \in {0, MaxBatch}
    /\ isDryRun \in BOOLEAN
    /\ noWait = TRUE
    /\ skipCheckAccount = TRUE
    /\ parallelBatches = 1
    /\ ledgerOnChain = {}
    /\ nominatorsOnChain = {}
    /\ StakeDefaults
    /\ CalledDirectly
    /\ lastPoolId = 0
    /\ godBalance = 0

\* every flag, batch size and chain state, narrow assignment inputs
InitStakeRun ==
    /\ \E n \in 0..MaxNominators : createdAccountIndices = AccountList(1, n)
    /\ validatorsPerNominator = 1
    /\ validatorStartIndex = 0
    /\ chainValidators = ValidatorSet(2)
    /\ batchSize \in 0..MaxBatch
    /\ isDryRun \in BOOLEAN
    /\ noWait \in BOOLEAN
    /\ skipCheckAccount \in BOOLEAN
    /\ parallelBatches \in 1..MaxParallel
    /\ ledgerOnChain \in SUBSET Range(createdAccountIndices)
    /\ nominatorsOnChain \in SUBSET ledgerOnChain
    /\ StakeDefaults
    /\ CalledDirectly
    /\ lastPoolId = 0
    /\ godBalance = 0

\* the documented example: --nominators 10 --no-wait --start-index 43
\* --skip-check-account --stake-only [--dry-run], 150 validators on chain
InitStakeExample ==
    /\ createdAccountIndices = AccountList(ExampleFirstAccount, ExampleNominators)
    /\ validatorsPerNominator = ExampleValidatorsPerNominator
    /\ validatorStartIndex = 0
    /\ chainValidators = ValidatorSet(ExampleValidatorsOnChain)
    /\ batchSize = 0
    /\ isDryRun \in BOOLEAN
    /\ noWait = TRUE
    /\ skipCheckAccount = TRUE
    /\ parallelBatches = 1
    /\ ledgerOnChain = {}
    /\ nominatorsOnChain = {}
    /\ StakeDefaults
    /\ CalledDirectly
    /\ lastPoolId = 0
    /\ godBalance = 0

\* api.query.Staking.Validators.getEntries() answered; `return` when empty
StakeQueryValidators ==
    /\ op = "stakeAndNominate" /\ pc = "queryValidators"
    /\ allValidators' = chainValidators
    /\ IF Len(chainValidators) = 0
       THEN /\ pc' = "done"
            /\ returned' = "undefined"
       ELSE /\ pc' = "assign"
            /\ UNCHANGED returned
    /\ UNCHANGED <<notStake, op, flagVars, mainVars, memberVars, rangeVars, stakeAmounts, chainVars, ioVars, batchVars, stakeInputs,
                   validatorAssignments, currentValidatorIndex, processedIndex,
                   stakedCount, skippedCount, nextValidatorIndex>>

\* the 15 s timer of the Promise.race rejects first: the function throws
StakeQueryTimeout ==
    /\ op = "stakeAndNominate" /\ pc = "queryValidators"
    /\ pc' = "done"
    /\ returned' = "thrown"
    /\ UNCHANGED <<notStake, op, flagVars, mainVars, memberVars, rangeVars, stakeAmounts, chainVars, ioVars, batchVars, stakeInputs, stakeLocals>>

\* lines 454-476: pre-calculate every account's validators
StakeAssignValidators ==
    /\ op = "stakeAndNominate" /\ pc = "assign"
    /\ LET r == AssignLoop(createdAccountIndices, 1, validatorStartIndex,
                           validatorsPerNominator, allValidators, EmptyTable)
       IN /\ validatorAssignments' = r.assignments
          /\ currentValidatorIndex' = r.cursor
    /\ pc' = "loop"
    /\ UNCHANGED <<notStake, op, returned, flagVars, mainVars, memberVars, rangeVars, stakeAmounts, chainVars, ioVars, batchVars, stakeInputs,
                   allValidators, processedIndex, stakedCount, skippedCount,
                   nextValidatorIndex>>

\* one pass of the inner while loop (lines 503-578): one account is examined
StakeProcessAccount ==
    /\ op = "stakeAndNominate" /\ pc = "loop"
    /\ Len(batch) < stakeBatchSize
    /\ processedIndex < Len(createdAccountIndices)
    /\ LET accountIndex == createdAccountIndices[processedIndex + 1]
           isBonded == ~skipCheckAccount /\ accountIndex \in ledgerOnChain
           isNominator == ~skipCheckAccount /\ accountIndex \in nominatorsOnChain
           assignedValidators ==
               IF accountIndex \in DOMAIN validatorAssignments
               THEN validatorAssignments[accountIndex] ELSE <<>>
       IN /\ existenceQueries' =
                 IF skipCheckAccount THEN existenceQueries ELSE existenceQueries + 2
          /\ IF ~isBonded /\ ~isNominator
             THEN IF Len(assignedValidators) = 0
                  THEN \* `continue` without processedIndex++
                       UNCHANGED <<batch, stakedCount, skippedCount, processedIndex>>
                  ELSE /\ batch' = Append(batch, accountIndex)
                       /\ stakedCount' = stakedCount + 1
                       /\ processedIndex' = processedIndex + 1
                       /\ UNCHANGED skippedCount
             ELSE /\ skippedCount' = skippedCount + 1
                  /\ processedIndex' = processedIndex + 1
                  /\ UNCHANGED <<batch, stakedCount>>
    /\ UNCHANGED <<notStake, ctlVars, flagVars, mainVars, memberVars, rangeVars, stakeAmounts, chainVars, writeCalls, batches, txs, chunkStart,
                   stakeInputs, allValidators, validatorAssignments,
                   currentValidatorIndex, nextValidatorIndex>>

\* lines 580-699: the batch is full or the list is exhausted; a non-empty batch
\* is logged (dry run) or every transaction of it is submitted at once by
\* batch.map(...)
StakeExecuteBatch ==
    /\ op = "stakeAndNominate" /\ pc = "loop"
    /\ ~(Len(batch) < stakeBatchSize /\ processedIndex < Len(createdAccountIndices))
    /\ Len(batch) > 0
    /\ batches' = Append(batches, batch)
    /\ IF isDryRun
       THEN /\ batch' = <<>>
            /\ UNCHANGED <<pc, writeCalls, txs, chunkStart>>
       ELSE /\ writeCalls' = writeCalls + Len(batch)
            /\ txs' = [i \in 1..Len(batch) |->
                          IF noWait THEN NewSubmittedTx ELSE NewWatchedTx]
            /\ chunkStart' = 0
            /\ pc' = "await"
            /\ UNCHANGED batch
    /\ UNCHANGED <<notStake, op, returned, flagVars, mainVars, memberVars, rangeVars, stakeAmounts, chainVars, existenceQueries, stakeInputs,
                   stakeLocals>>

\* fire-and-forget: tx.signAndSubmit(signer) settles; a rejection is caught
StakeSubmitSettled(i, accepted) ==
    /\ op = "stakeAndNominate" /\ pc = "await" /\ noWait
    /\ i \in 1..Len(txs) /\ txs[i].promise = "pending"
    /\ txs' = [txs EXCEPT ![i] = SubmitSettled(txs[i], accepted)]
    /\ UNCHANGED <<notStake, ctlVars, flagVars, mainVars, memberVars, rangeVars, stakeAmounts, chainVars, ioVars, batch, batches,
                   chunkStart, stakeInputs, stakeLocals>>

\* next: event.type === "txBestBlocksState" (lines 639-656)
StakeTxIncluded(i) ==
    /\ op = "stakeAndNominate" /\ pc = "await" /\ ~noWait
    /\ i \in 1..Len(txs) /\ Delivers(txs[i])
    /\ txs' = [txs EXCEPT ![i] = SoloOnIncluded(txs[i])]
    /\ UNCHANGED <<notStake, ctlVars, flagVars, mainVars, memberVars, rangeVars, stakeAmounts, chainVars, ioVars, batch, batches,
                   chunkStart, stakeInputs, stakeLocals>>

\* error: (lines 657-696)
StakeTxError(i, errorMessage) ==
    /\ op = "stakeAndNominate" /\ pc = "await" /\ ~noWait
    /\ i \in 1..Len(txs) /\ Delivers(txs[i])
    /\ txs' = [txs EXCEPT ![i] = SoloOnError(txs[i], errorMessage)]
    /\ UNCHANGED <<notStake, ctlVars, flagVars, mainVars, memberVars, rangeVars, stakeAmounts, chainVars, ioVars, batch, batches,
                   chunkStart, stakeInputs, stakeLocals>>

\* the 30 s timer fires (lines 625-636)
StakeTxTimeout(i) ==
    /\ op = "stakeAndNominate" /\ pc = "await" /\ ~noWait
    /\ i \in 1..Len(txs) /\ txs[i].timer = "armed"
    /\ txs' = [txs EXCEPT ![i] = SoloOnTimeout(txs[i])]
    /\ UNCHANGED <<notStake, ctlVars, flagVars, mainVars, memberVars, rangeVars, stakeAmounts, chainVars, ioVars, batch, batches,
                   chunkStart, stakeInputs, stakeLocals>>

\* the transactions awaited by one Promise.allSettled(...)
StakeChunk ==
    IF parallelBatches > 1
    THEN (chunkStart + 1)..Min(chunkStart + parallelBatches, Len(txs))
    ELSE 1..Len(txs)

\* the join that throws as soon as one transaction of the chunk is rejected
StakeAwaitChunkFailFast ==
    /\ op = "stakeAndNominate" /\ pc = "await"
    /\ \/ \E i \in StakeChunk : txs[i].promise = "rejected"
       \/ \A i \in StakeChunk : txs[i].promise # "pending"
    /\ IF \E i \in StakeChunk : txs[i].promise = "rejected"
       THEN /\ pc' = "done"
            /\ returned' = "thrown"
            /\ UNCHANGED <<batch, txs, chunkStart>>
       ELSE /\ LET next == IF parallelBatches > 1 THEN chunkStart + parallelBatches
                           ELSE Len(txs)
               IN IF next >= Len(txs)
                  THEN /\ pc' = "loop"
                       /\ batch' = <<>>
                       /\ txs' = <<>>
                       /\ chunkStart' = 0
                  ELSE /\ chunkStart' = next
                       /\ UNCHANGED <<pc, batch, txs>>
            /\ UNCHANGED returned
    /\ UNCHANGED <<notStake, op, flagVars, mainVars, memberVars, rangeVars, stakeAmounts, chainVars, ioVars, batches, stakeInputs,
                   stakeLocals>>

\* lines 608-616 / 701-709: Promise.allSettled of the current chunk returns
StakeAwaitChunk ==
    /\ op = "stakeAndNominate" /\ pc = "await"
    /\ \A i \in StakeChunk : txs[i].promise # "pending"
    /\ LET next == IF parallelBatches > 1 THEN chunkStart + parallelBatches ELSE Len(txs)
       IN IF next >= Len(txs)
          THEN /\ pc' = "loop"
               /\ batch' = <<>>
               /\ txs' = <<>>
               /\ chunkStart' = 0
          ELSE /\ chunkStart' = next
               /\ UNCHANGED <<pc, batch, txs>>
    /\ UNCHANGED <<notStake, op, returned, flagVars, mainVars, memberVars, rangeVars, stakeAmounts, chainVars, ioVars, batches, stakeInputs,
                   stakeLocals>>

\* the return that advances the cursor only for the accounts that were staked
StakeReturnCountsStaked ==
    /\ op = "stakeAndNominate" /\ pc = "loop"
    /\ processedIndex >= Len(createdAccountIndices)
    /\ Len(batch) = 0
    /\ pc' = "done"
    /\ returned' = "value"
    /\ nextValidatorIndex' =
          IF stakedCount = 0 THEN validatorStartIndex
          ELSE (validatorStartIndex + stakedCount * validatorsPerNominator)
                  % Len(allValidators)
    /\ UNCHANGED <<notStake, op, flagVars, mainVars, memberVars, rangeVars, stakeAmounts, chainVars, ioVars, batchVars, stakeInputs,
                   allValidators, validatorAssignments, currentValidatorIndex,
                   processedIndex, stakedCount, skippedCount>>

\* the return that hands back the start cursor it was given
StakeReturnKeepsStart ==
    /\ op = "stakeAndNominate" /\ pc = "loop"
    /\ processedIndex >= Len(createdAccountIndices)
    /\ Len(batch) = 0
    /\ pc' = "done"
    /\ returned' = "value"
    /\ nextValidatorIndex' = validatorStartIndex
    /\ UNCHANGED <<notStake, op, flagVars, mainVars, memberVars, rangeVars, stakeAmounts, chainVars, ioVars, batchVars, stakeInputs,
                   allValidators, validatorAssignments, currentValidatorIndex,
                   processedIndex, stakedCount, skippedCount>>

\* lines 715-719: summary and return
StakeReturn ==
    /\ op = "stakeAndNominate" /\ pc = "loop"
    /\ processedIndex >= Len(createdAccountIndices)
    /\ Len(batch) = 0
    /\ pc' = "done"
    /\ returned' = "value"
    /\ nextValidatorIndex' = currentValidatorIndex
    /\ UNCHANGED <<notStake, op, flagVars, mainVars, memberVars, rangeVars, stakeAmounts, chainVars, ioVars, batchVars, stakeInputs,
                   allValidators, validatorAssignments, currentValidatorIndex,
                   processedIndex, stakedCount, skippedCount>>

InitStake == InitStakePlan \/ InitStakeRun \/ InitStakeExample

NextStake ==
    \/ StakeQueryValidators
    \/ StakeQueryTimeout
    \/ StakeAssignValidators
    \/ StakeProcessAccount
    \/ StakeExecuteBatch
    \/ \E i \in 1..Len(txs), accepted \in BOOLEAN : StakeSubmitSettled(i, accepted)
    \/ \E i \in 1..Len(txs) : StakeTxIncluded(i)
    \/ \E i \in 1..Len(txs), m \in ErrorMessages : StakeTxError(i, m)
    \/ \E i \in 1..Len(txs) : StakeTxTimeout(i)
    \/ StakeAwaitChunk
    \/ StakeReturn

SpecStake == InitStake /\ [][NextStake]_vars

\* --validators-per-nominator 0: every account is assigned an empty selection
InitStakeNoValidators ==
    /\ \E n \in 0..MaxNominators : createdAccountIndices = AccountList(1, n)
    /\ validatorsPerNominator = 0
    /\ validatorStartIndex = 0
    /\ chainValidators = ValidatorSet(2)
    /\ batchSize \in {0, MaxBatch}
    /\ isDryRun \in BOOLEAN
    /\ noWait = TRUE
    /\ skipCheckAccount = TRUE
    /\ parallelBatches = 1
    /\ ledgerOnChain = {}
    /\ nominatorsOnChain = {}
    /\ StakeDefaults
    /\ CalledDirectly
    /\ lastPoolId = 0
    /\ godBalance = 0

\* stakeAndNominate keeps running until it returns or throws: nothing but the
\* program itself decides when its next step is taken
InitStakeAny == InitStakeRun \/ InitStakeNoValidators
SpecStakeFair == InitStakeAny /\ [][NextStake]_vars /\ WF_vars(NextStake)

(* ---------------------------------------------------------------------- *)
(* createAccounts                                                          *)
(* ---------------------------------------------------------------------- *)
\* const transferBatchSize = batchSize || 1000
transferBatchSize == IF batchSize = 0 THEN DefaultTransferBatchSize ELSE batchSize

\* checkBatchSize = 50 when the caller passes none
checkBatchSize == IF checkBatchArg = 0 THEN DefaultCheckBatchSize ELSE checkBatchArg

InitCreate ==
    /\ op = "createAccounts"
    /\ CalledDirectly
    /\ lastPoolId = 0
    /\ godBalance = 0
    /\ pc = "start"
    /\ returned = "no"
    /\ targetCount \in 0..MaxNominators
    /\ startIndex \in 1..2
    /\ checkBatchArg \in 0..MaxBatch
    /\ batchSize \in 0..MaxBatch
    /\ existsOnChain \in SUBSET (1..MaxExisting)
    /\ isDryRun \in BOOLEAN
    /\ noWait \in BOOLEAN
    /\ skipCheckAccount \in BOOLEAN
    /\ parallelBatches = 1
    /\ writeCalls = 0 /\ existenceQueries = 0
    /\ batch = <<>> /\ batches = <<>> /\ txs = <<>> /\ chunkStart = 0
    /\ createdAccountIndices = <<>>
    /\ availableIndices = <<>>
    /\ currentCheckIndex = startIndex
    /\ totalChecked = 0
    /\ createdCount = 0
    /\ skippedCount = 0
    /\ processedIndices = 0
    /\ StakeUnused
    /\ TopupUnused
    /\ HybridUnused
    /\ PoolCmdUnused

\* the skip branch that still probes every index of the range
SkipRangeWithQueries(first, count) ==
    [indices |-> AccountList(first, count), queries |-> count]

\* the skip branch that starts one index too far
SkipRangeShifted(first, count) ==
    [indices |-> AccountList(first + 1, count), queries |-> 0]

\* lines 59-72: every index startIndex .. startIndex + targetCount - 1 is
\* pushed to availableIndices; no query is made
SkipRange(first, count) ==
    [indices |-> AccountList(first, count), queries |-> 0]

CreateSkipChecks ==
    /\ op = "createAccounts" /\ pc = "start"
    /\ skipCheckAccount
    /\ availableIndices' = SkipRange(startIndex, targetCount).indices
    /\ existenceQueries' = existenceQueries + SkipRange(startIndex, targetCount).queries
    /\ pc' = "create"
    /\ UNCHANGED <<notCreate, op, returned, flagVars, mainVars, memberVars, rangeVars, stakeAmounts, writeCalls, batchVars,
                   createdAccountIndices, batchSize, skippedCount, createInputs,
                   currentCheckIndex, totalChecked, createdCount, processedIndices>>

ScanContinues ==
    Len(availableIndices) < targetCount /\ totalChecked < maxChecks

\* one pass of the search loop whose inner loop does not test totalChecked
CreateScanBatchUncapped(failed) ==
    /\ op = "createAccounts" /\ pc = "start"
    /\ ~skipCheckAccount
    /\ ScanContinues
    /\ LET batchEndIndex ==
               Min(currentCheckIndex + checkBatchSize,
                   currentCheckIndex + (targetCount - Len(availableIndices)) * 2)
           n == batchEndIndex - currentCheckIndex
           checkBatch == AccountList(currentCheckIndex, IF n > 0 THEN n ELSE 0)
           shouldCreate(i) == i \notin existsOnChain \/ i \in failed
       IN /\ failed \subseteq (Range(checkBatch) \cap existsOnChain)
          /\ totalChecked' = totalChecked + Len(checkBatch)
          /\ IF Len(checkBatch) = 0
             THEN /\ pc' = "scanned"
                  /\ UNCHANGED <<existenceQueries, availableIndices, skippedCount,
                                 currentCheckIndex>>
             ELSE /\ existenceQueries' = existenceQueries + Len(checkBatch)
                  /\ availableIndices' =
                        availableIndices \o SelectSeq(checkBatch, shouldCreate)
                  /\ skippedCount' = skippedCount +
                        Cardinality({i \in Range(checkBatch) : ~shouldCreate(i)})
                  /\ currentCheckIndex' = batchEndIndex
                  /\ UNCHANGED pc
    /\ UNCHANGED <<notCreate, op, returned, flagVars, mainVars, memberVars, rangeVars, stakeAmounts, writeCalls, batchVars,
                   createdAccountIndices, batchSize, createInputs, createdCount,
                   processedIndices>>

\* lines 84-157: one pass of the search loop.  `failed` are the probed accounts
\* whose query threw or timed out (they are assumed to need creation); only a
\* failure on an existing account changes the outcome
CreateScanBatch(failed) ==
    /\ op = "createAccounts" /\ pc = "start"
    /\ ~skipCheckAccount
    /\ ScanContinues
    /\ LET batchEndIndex ==
               Min(currentCheckIndex + checkBatchSize,
                   currentCheckIndex + (targetCount - Len(availableIndices)) * 2)
           n == Min(batchEndIndex - currentCheckIndex, maxChecks - totalChecked)
           checkBatch == AccountList(currentCheckIndex, IF n > 0 THEN n ELSE 0)
           shouldCreate(i) == i \notin existsOnChain \/ i \in failed
       IN /\ failed \subseteq (Range(checkBatch) \cap existsOnChain)
          /\ totalChecked' = totalChecked + Len(checkBatch)
          /\ IF Len(checkBatch) = 0
             THEN /\ pc' = "scanned"
                  /\ UNCHANGED <<existenceQueries, availableIndices, skippedCount,
                                 currentCheckIndex>>
             ELSE /\ existenceQueries' = existenceQueries + Len(checkBatch)
                  /\ availableIndices' =
                        availableIndices \o SelectSeq(checkBatch, shouldCreate)
                  /\ skippedCount' = skippedCount +
                        Cardinality({i \in Range(checkBatch) : ~shouldCreate(i)})
                  /\ currentCheckIndex' = batchEndIndex
                  /\ UNCHANGED pc
    /\ UNCHANGED <<notCreate, op, returned, flagVars, mainVars, memberVars, rangeVars, stakeAmounts, writeCalls, batchVars,
                   createdAccountIndices, batchSize, createInputs, createdCount,
                   processedIndices>>

\* lines 159-173: the search loop has ended; `return` when nothing was found
CreateScanEnd ==
    /\ op = "createAccounts" /\ pc \in {"start", "scanned"}
    /\ ~skipCheckAccount
    /\ pc = "start" => ~ScanContinues
    /\ IF Len(availableIndices) < targetCount /\ Len(availableIndices) = 0
       THEN pc' = "done" /\ returned' = "undefined"
       ELSE pc' = "create" /\ UNCHANGED returned
    /\ UNCHANGED <<notCreate, op, flagVars, mainVars, memberVars, rangeVars, stakeAmounts, ioVars, batchVars, createdAccountIndices,
                   batchSize, skippedCount, createVars>>

\* a chain on which every index the search can reach, or all but the last
\* ScanTail of them, is already populated
CrowdedChains ==
    {1..(maxChecks + ScanTail + 2), 1..(maxChecks - ScanTail)}

\* the query failures considered on a crowded chain: those of the last probes
FailWindow == (maxChecks - ScanTail)..(maxChecks + ScanTail + 2)

\* lines 86-90: a pass probes at most twice the missing number of indices
Probed == currentCheckIndex..(currentCheckIndex + 2 * targetCount)

\* lines 28-58 and 76-82: createAccounts called on a crowded chain
InitScan ==
    /\ op = "createAccounts"
    /\ CalledDirectly
    /\ lastPoolId = 0
    /\ godBalance = 0
    /\ pc = "start"
    /\ returned = "no"
    /\ targetCount = CrowdedTarget
    /\ startIndex = 1
    /\ checkBatchArg \in {0, CrowdedBatch}
    /\ batchSize = 1
    /\ existsOnChain \in CrowdedChains
    /\ isDryRun = FALSE
    /\ noWait = FALSE
    /\ skipCheckAccount = FALSE
    /\ parallelBatches = 1
    /\ writeCalls = 0 /\ existenceQueries = 0
    /\ batch = <<>> /\ batches = <<>> /\ txs = <<>> /\ chunkStart = 0
    /\ createdAccountIndices = <<>>
    /\ availableIndices = <<>>
    /\ currentCheckIndex = startIndex
    /\ totalChecked = 0
    /\ createdCount = 0
    /\ skippedCount = 0
    /\ processedIndices = 0
    /\ StakeUnused
    /\ TopupUnused
    /\ HybridUnused
    /\ PoolCmdUnused

\* lines 76-173: the search loop alone
NextScan ==
    \/ \E failed \in SUBSET (FailWindow \cap Probed) : CreateScanBatch(failed)
    \/ CreateScanEnd

\* every pass of the loop awaits queries that are each raced against a 10 s
\* timer (lines 108-116), so a pass that has started ends
SpecScan == InitScan /\ [][NextScan]_vars /\ WF_vars(NextScan)

\* the chain's Staking.MinNominatorBond, and what main() derives from it
stakeRange == MinNominatorBond \div 2
baseBuffer == 0

\* variableAmount = (stakeRange * BigInt(createdCount % 10)) / 9n;
\* stakeAmount = minNominatorBond + baseBuffer + variableAmount
StakeAmount(count) ==
    MinNominatorBond + baseBuffer + ((stakeRange * (count % 10)) \div 9)

\* stakeAmounts.set(accountIndex, stakeAmount) for the accounts of one batch,
\* the k-th of them with createdCount + k - 1 accounts created before it
SetStakeAmounts(amounts, transfers, count) ==
    [a \in (DOMAIN amounts) \cup Range(transfers) |->
        IF a \in Range(transfers)
        THEN StakeAmount(count + (CHOOSE k \in DOMAIN transfers : transfers[k] = a) - 1)
        ELSE amounts[a]]

\* the batch step without the dry-run gate of line 237
CreateBuildBatchAlwaysSubmits ==
    /\ op = "createAccounts" /\ pc = "create"
    /\ processedIndices < Len(availableIndices)
    /\ LET batchEndIndex ==
               Min(processedIndices + transferBatchSize, Len(availableIndices))
           transfers == SubSeq(availableIndices, processedIndices + 1, batchEndIndex)
       IN /\ createdAccountIndices' = createdAccountIndices \o transfers
          /\ createdCount' = createdCount + Len(transfers)
          /\ processedIndices' = batchEndIndex
          /\ batch' = transfers
          /\ batches' = Append(batches, transfers)
          /\ stakeAmounts' = SetStakeAmounts(stakeAmounts, transfers, createdCount)
    /\ writeCalls' = writeCalls + 1
    /\ txs' = <<IF noWait THEN NewSubmittedTx ELSE NewWatchedTx>>
    /\ pc' = "await"
    /\ UNCHANGED <<notCreate, op, returned, flagVars, mainVars, memberVars, rangeVars, existenceQueries, chunkStart,
                   batchSize, skippedCount, createInputs, availableIndices,
                   currentCheckIndex, totalChecked>>

\* the batch step that computes the stake amount of every account created so
\* far again
CreateBuildBatchRecomputes ==
    /\ op = "createAccounts" /\ pc = "create"
    /\ processedIndices < Len(availableIndices)
    /\ LET batchEndIndex ==
               Min(processedIndices + transferBatchSize, Len(availableIndices))
           transfers == SubSeq(availableIndices, processedIndices + 1, batchEndIndex)
       IN /\ createdAccountIndices' = createdAccountIndices \o transfers
          /\ createdCount' = createdCount + Len(transfers)
          /\ processedIndices' = batchEndIndex
          /\ batch' = transfers
          /\ batches' = Append(batches, transfers)
          /\ stakeAmounts' = SetStakeAmounts(stakeAmounts, createdAccountIndices \o transfers,
                                           createdCount)
    /\ IF isDryRun
       THEN UNCHANGED <<pc, writeCalls, txs>>
       ELSE /\ writeCalls' = writeCalls + 1
            /\ txs' = <<IF noWait THEN NewSubmittedTx ELSE NewWatchedTx>>
            /\ pc' = "await"
    /\ UNCHANGED <<notCreate, op, returned, flagVars, mainVars, memberVars, rangeVars, existenceQueries, chunkStart,
                   batchSize, skippedCount, createInputs, availableIndices,
                   currentCheckIndex, totalChecked>>

\* lines 187-278: the next transferBatchSize available indices become one
\* batch_all of transfers, which is logged (dry run) or submitted
CreateBuildBatch ==
    /\ op = "createAccounts" /\ pc = "create"
    /\ processedIndices < Len(availableIndices)
    /\ LET batchEndIndex ==
               Min(processedIndices + transferBatchSize, Len(availableIndices))
           transfers == SubSeq(availableIndices, processedIndices + 1, batchEndIndex)
       IN /\ createdAccountIndices' = createdAccountIndices \o transfers
          /\ createdCount' = createdCount + Len(transfers)
          /\ processedIndices' = batchEndIndex
          /\ batch' = transfers
          /\ batches' = Append(batches, transfers)
          /\ stakeAmounts' = SetStakeAmounts(stakeAmounts, transfers, createdCount)
    /\ IF isDryRun
       THEN UNCHANGED <<pc, writeCalls, txs>>
       ELSE /\ writeCalls' = writeCalls + 1
            /\ txs' = <<IF noWait THEN NewSubmittedTx ELSE NewWatchedTx>>
            /\ pc' = "await"
    /\ UNCHANGED <<notCreate, op, returned, flagVars, mainVars, memberVars, rangeVars, existenceQueries, chunkStart,
                   batchSize, skippedCount, createInputs, availableIndices,
                   currentCheckIndex, totalChecked>>

CreateTxFrame ==
    UNCHANGED <<notCreate, ctlVars, flagVars, mainVars, memberVars, rangeVars, stakeAmounts, ioVars, batch, batches, chunkStart,
                createdAccountIndices, batchSize, skippedCount, createVars>>

\* lines 249-258: batchTx.signAndSubmit(godSigner) settles; a failure is logged
CreateSubmitSettled(accepted) ==
    /\ op = "createAccounts" /\ pc = "await" /\ noWait
    /\ txs[1].promise = "pending"
    /\ txs' = [txs EXCEPT ![1] = SubmitSettled(txs[1], accepted)]
    /\ CreateTxFrame

\* lines 279-303
CreateTxIncluded ==
    /\ op = "createAccounts" /\ pc = "await" /\ ~noWait
    /\ Delivers(txs[1])
    /\ txs' = [txs EXCEPT ![1] = SoloOnIncluded(txs[1])]
    /\ CreateTxFrame

\* lines 304-343
CreateTxError(errorMessage) ==
    /\ op = "createAccounts" /\ pc = "await" /\ ~noWait
    /\ Delivers(txs[1])
    /\ txs' = [txs EXCEPT ![1] = SoloOnError(txs[1], errorMessage)]
    /\ CreateTxFrame

\* lines 344-356
CreateTxComplete ==
    /\ op = "createAccounts" /\ pc = "await" /\ ~noWait
    /\ Delivers(txs[1])
    /\ txs' = [txs EXCEPT ![1] = SoloOnComplete(txs[1])]
    /\ CreateTxFrame

\* lines 265-276
CreateTxTimeout ==
    /\ op = "createAccounts" /\ pc = "await" /\ ~noWait
    /\ txs[1].timer = "armed"
    /\ txs' = [txs EXCEPT ![1] = SoloOnTimeout(txs[1])]
    /\ CreateTxFrame

\* the wait that submits the batch again when its transaction failed or timed out
CreateAwaitRetries ==
    /\ op = "createAccounts" /\ pc = "await"
    /\ txs[1].promise # "pending"
    /\ IF txs[1].settledBy \in {"error", "timeout", "infraError", "submitFailed"}
       THEN /\ writeCalls' = writeCalls + 1
            /\ txs' = <<IF noWait THEN NewSubmittedTx ELSE NewWatchedTx>>
            /\ UNCHANGED <<pc, returned, batch>>
       ELSE /\ pc' = "create"
            /\ batch' = <<>>
            /\ txs' = <<>>
            /\ UNCHANGED <<returned, writeCalls>>
    /\ UNCHANGED <<notCreate, op, flagVars, mainVars, memberVars, rangeVars, stakeAmounts, existenceQueries, batches, chunkStart,
                   createdAccountIndices, batchSize, skippedCount, createVars>>

\* the `await` of the batch returns, or throws when the promise was rejected
CreateAwait ==
    /\ op = "createAccounts" /\ pc = "await"
    /\ txs[1].promise # "pending"
    /\ IF txs[1].promise = "rejected"
       THEN /\ pc' = "done"
            /\ returned' = "thrown"
            /\ UNCHANGED <<batch, txs>>
       ELSE /\ pc' = "create"
            /\ batch' = <<>>
            /\ txs' = <<>>
            /\ UNCHANGED returned
    /\ UNCHANGED <<notCreate, op, flagVars, mainVars, memberVars, rangeVars, stakeAmounts, ioVars, batches, chunkStart,
                   createdAccountIndices, batchSize, skippedCount, createVars>>

\* lines 364-390: summary and return { createdCount, skippedCount }
CreateReturn ==
    /\ op = "createAccounts" /\ pc = "create"
    /\ processedIndices >= Len(availableIndices)
    /\ pc' = "done"
    /\ returned' = "value"
    /\ UNCHANGED <<notCreate, op, flagVars, mainVars, memberVars, rangeVars, stakeAmounts, ioVars, batchVars, createdAccountIndices,
                   batchSize, skippedCount, createVars>>

NextCreate ==
    \/ CreateSkipChecks
    \/ \E failed \in SUBSET existsOnChain : CreateScanBatch(failed)
    \/ CreateScanEnd
    \/ CreateBuildBatch
    \/ \E accepted \in BOOLEAN : CreateSubmitSettled(accepted)
    \/ CreateTxIncluded
    \/ \E m \in ErrorMessages : CreateTxError(m)
    \/ CreateTxComplete
    \/ CreateTxTimeout
    \/ CreateAwait
    \/ CreateReturn

SpecCreate == InitCreate /\ [][NextCreate]_vars

(* ---------------------------------------------------------------------- *)
(* topupAccounts                                                           *)
(* ---------------------------------------------------------------------- *)
\* batchSize = 500 when the caller passes none
topupBatchSize == IF batchSize = 0 THEN DefaultTopupBatchSize ELSE batchSize

RECURSIVE SumOver(_, _, _)
SumOver(s, i, f) == IF i > Len(s) THEN 0 ELSE f[s[i]] + SumOver(s, i + 1, f)

TopupOptions ==
    /\ op = "topupAccounts"
    /\ godBalance \in {1, MaxGodBalance}
    /\ returned = "no"
    /\ fromIndex = 1
    /\ toIndex \in 1..(MaxNominators + 1)
    /\ targetAmount = MaxBalance
    /\ freeBalance \in [fromIndex..(toIndex - 1) -> 0..MaxBalance]
    /\ batchSize \in 0..MaxBatch
    /\ isDryRun \in BOOLEAN
    /\ noWait = FALSE
    /\ skipCheckAccount = FALSE
    /\ parallelBatches = 1
    /\ writeCalls = 0 /\ existenceQueries = 0
    /\ batch = <<>> /\ batches = <<>> /\ txs = <<>> /\ chunkStart = 0
    /\ createdAccountIndices = <<>>
    /\ skippedCount = 0
    /\ accountsToTopup = <<>> /\ totalTopupNeeded = 0 /\ counter = 0
    /\ processedCount = 0 /\ toppedUpCount = 0
    /\ StakeUnused
    /\ CreateUnused
    /\ HybridUnused
    /\ PoolCmdUnused

InitTopup ==
    /\ TopupOptions
    /\ pc = "start"
    /\ CalledDirectly
    /\ lastPoolId = 0

\* lines 747-791: the first pass over fromIndex .. toIndex - 1, then the two
\* early returns (nothing to do; dry run)
TopupCheckBalances ==
    /\ op = "topupAccounts" /\ pc = "start"
    /\ LET needs(i) == freeBalance[i] < targetAmount
           list == SelectSeq(AccountList(fromIndex, toIndex - fromIndex), needs)
           total == SumOver(list, 1, [i \in DOMAIN freeBalance |-> targetAmount - freeBalance[i]])
       IN /\ accountsToTopup' = list
          /\ totalTopupNeeded' = total
          /\ IF total = 0
             THEN /\ pc' = "done" /\ returned' = "value"
                  /\ toppedUpCount' = 0
                  /\ skippedCount' = toIndex - fromIndex
             ELSE IF isDryRun
             THEN /\ pc' = "done" /\ returned' = "value"
                  /\ toppedUpCount' = Len(list)
                  /\ skippedCount' = toIndex - fromIndex - Len(list)
             ELSE /\ pc' = "topup"
                  /\ UNCHANGED <<returned, toppedUpCount, skippedCount>>
    /\ UNCHANGED <<notTopup, op, flagVars, mainVars, memberVars, rangeVars, stakeAmounts, ioVars, batchVars, batchSize, topupInputs,
                   counter, processedCount>>

\* lines 797-840: the next batchSize top-ups become one batch_all, submitted
\* with signSubmitAndWatch
TopupBuildBatch ==
    /\ op = "topupAccounts" /\ pc = "topup"
    /\ counter < Len(accountsToTopup)
    /\ LET batchEnd == Min(counter + topupBatchSize, Len(accountsToTopup))
           transfers == SubSeq(accountsToTopup, counter + 1, batchEnd)
       IN /\ counter' = batchEnd
          /\ batch' = transfers
          /\ batches' = Append(batches, transfers)
    /\ writeCalls' = writeCalls + 1
    /\ txs' = <<NewWatchedTx>>
    /\ pc' = "await"
    /\ UNCHANGED <<notTopup, op, returned, flagVars, mainVars, memberVars, rangeVars, stakeAmounts, existenceQueries, chunkStart,
                   batchSize, skippedCount, topupInputs, accountsToTopup,
                   totalTopupNeeded, processedCount, toppedUpCount>>

TopupTxFrame ==
    UNCHANGED <<notTopup, ctlVars, flagVars, mainVars, memberVars, rangeVars, stakeAmounts, ioVars, batch, batches, chunkStart,
                batchSize, skippedCount, topupVars>>

\* lines 841-860
TopupTxIncluded ==
    /\ op = "topupAccounts" /\ pc = "await"
    /\ Delivers(txs[1])
    /\ txs' = [txs EXCEPT ![1] = SoloOnIncluded(txs[1])]
    /\ TopupTxFrame

\* lines 861-900
TopupTxError(errorMessage) ==
    /\ op = "topupAccounts" /\ pc = "await"
    /\ Delivers(txs[1])
    /\ txs' = [txs EXCEPT ![1] = SoloOnError(txs[1], errorMessage)]
    /\ TopupTxFrame

\* lines 901-913
TopupTxComplete ==
    /\ op = "topupAccounts" /\ pc = "await"
    /\ Delivers(txs[1])
    /\ txs' = [txs EXCEPT ![1] = SoloOnComplete(txs[1])]
    /\ TopupTxFrame

\* lines 827-838
TopupTxTimeout ==
    /\ op = "topupAccounts" /\ pc = "await"
    /\ txs[1].timer = "armed"
    /\ txs' = [txs EXCEPT ![1] = SoloOnTimeout(txs[1])]
    /\ TopupTxFrame

\* the `await` returns (processedCount += batch.length) or throws
TopupAwait ==
    /\ op = "topupAccounts" /\ pc = "await"
    /\ txs[1].promise # "pending"
    /\ IF txs[1].promise = "rejected"
       THEN /\ pc' = "done"
            /\ returned' = "thrown"
            /\ UNCHANGED <<batch, txs, processedCount>>
       ELSE /\ pc' = "topup"
            /\ processedCount' = processedCount + Len(batch)
            /\ batch' = <<>>
            /\ txs' = <<>>
            /\ UNCHANGED returned
    /\ UNCHANGED <<notTopup, op, flagVars, mainVars, memberVars, rangeVars, stakeAmounts, ioVars, batches, chunkStart, batchSize,
                   skippedCount, topupInputs, accountsToTopup, totalTopupNeeded,
                   counter, toppedUpCount>>

\* lines 921-925
TopupReturn ==
    /\ op = "topupAccounts" /\ pc = "topup"
    /\ counter >= Len(accountsToTopup)
    /\ pc' = "done"
    /\ returned' = "value"
    /\ toppedUpCount' = processedCount
    /\ skippedCount' = toIndex - fromIndex - processedCount
    /\ UNCHANGED <<notTopup, op, flagVars, mainVars, memberVars, rangeVars, stakeAmounts, ioVars, batchVars, batchSize, topupInputs,
                   accountsToTopup, totalTopupNeeded, counter, processedCount>>

NextTopup ==
    \/ TopupCheckBalances
    \/ TopupBuildBatch
    \/ TopupTxIncluded
    \/ \E m \in ErrorMessages : TopupTxError(m)
    \/ TopupTxComplete
    \/ TopupTxTimeout
    \/ TopupAwait
    \/ TopupReturn

SpecTopup == InitTopup /\ [][NextTopup]_vars

(* ---------------------------------------------------------------------- *)
(* createHybridStakers (and executeTransaction)                            *)
(* ---------------------------------------------------------------------- *)
\* the transactions of one hybrid: fund, join pool, bond, nominate
HybridSteps == 4

InitHybrid ==
    /\ op = "createHybridStakers"
    /\ CalledDirectly
    /\ lastPoolId = 0
    /\ godBalance = 0
    /\ pc = "start"
    /\ returned = "no"
    /\ hybridCount \in 0..MaxBatch
    /\ createdPoolIds \in {AccountList(1, n) : n \in 0..MaxBatch}
    /\ validatorsPerNominator \in {1, MaxPerNominator}
    /\ validatorStartIndex \in {0, MaxStartCursor}
    /\ chainValidators \in {ValidatorSet(v) : v \in 0..MaxValidators}
    /\ isDryRun \in BOOLEAN
    /\ noWait \in BOOLEAN
    /\ skipCheckAccount = FALSE
    /\ parallelBatches = 1
    /\ writeCalls = 0 /\ existenceQueries = 0
    /\ batch = <<>> /\ batches = <<>> /\ txs = <<>> /\ chunkStart = 0
    /\ createdAccountIndices = <<>> /\ batchSize = 0
    /\ ledgerOnChain = {} /\ nominatorsOnChain = {}
    /\ allValidators = <<>> /\ validatorAssignments = EmptyTable
    /\ currentValidatorIndex = validatorStartIndex
    /\ processedIndex = 0 /\ stakedCount = 0 /\ skippedCount = 0
    /\ nextValidatorIndex = -1
    /\ loopIndex = 0 /\ txStep = 0 /\ selectedValidators = <<>> /\ createdHybrids = 0
    /\ CreateUnused
    /\ TopupUnused
    /\ PoolCmdUnused

\* lines 1060-1091: `return` when there is no pool; else the chain parameters
\* and the validator set are read
HybridStart ==
    /\ op = "createHybridStakers" /\ pc = "start"
    /\ IF Len(createdPoolIds) = 0
       THEN /\ pc' = "done"
            /\ returned' = "value"
            /\ nextValidatorIndex' = validatorStartIndex
            /\ UNCHANGED <<allValidators, loopIndex>>
       ELSE /\ pc' = "loop"
            /\ allValidators' = chainValidators
            /\ loopIndex' = 1
            /\ UNCHANGED <<returned, nextValidatorIndex>>
    /\ UNCHANGED <<notHybrid, op, flagVars, mainVars, memberVars, rangeVars, stakeAmounts, chainValidators, writeCalls, txs,
                   validatorsPerNominator, validatorStartIndex, currentValidatorIndex,
                   hybridInputs, txStep, selectedValidators, createdHybrids>>

\* lines 1093-1131: hybrid i is planned (pool, validators, cursor); a dry run
\* counts it, a real run submits its funding transfer
HybridPlan ==
    /\ op = "createHybridStakers" /\ pc = "loop"
    /\ loopIndex <= hybridCount
    /\ selectedValidators' =
          SelectValidators(currentValidatorIndex, validatorsPerNominator, allValidators)
    /\ currentValidatorIndex' =
          AdvanceCursor(currentValidatorIndex, validatorsPerNominator, allValidators)
    /\ IF isDryRun
       THEN /\ createdHybrids' = createdHybrids + 1
            /\ loopIndex' = loopIndex + 1
            /\ UNCHANGED <<pc, writeCalls, txs, txStep>>
       ELSE /\ txStep' = 1
            /\ writeCalls' = writeCalls + 1
            /\ txs' = <<IF noWait THEN NewSubmittedTx ELSE NewWatchedTx>>
            /\ pc' = "await"
            /\ UNCHANGED <<createdHybrids, loopIndex>>
    /\ UNCHANGED <<notHybrid, op, returned, flagVars, mainVars, memberVars, rangeVars, stakeAmounts, chainValidators,
                   validatorsPerNominator, validatorStartIndex, allValidators,
                   nextValidatorIndex, hybridInputs>>

\* the operations whose transactions go through executeTransaction
ExecOps == {"createHybridStakers", "createPools", "createPoolMembers"}

\* executeTransaction lines 775-786 (noWait)
ExecSubmitSettled(accepted) ==
    /\ op \in ExecOps /\ pc = "await" /\ noWait
    /\ txs[1].promise = "pending"
    /\ txs' = [txs EXCEPT ![1] = PoolSubmitSettled(txs[1], accepted)]
    /\ UNCHANGED allButTxs

\* executeTransaction lines 806-822
ExecTxIncluded ==
    /\ op \in ExecOps /\ pc = "await" /\ ~noWait
    /\ Delivers(txs[1])
    /\ txs' = [txs EXCEPT ![1] = SoloOnIncluded(txs[1])]
    /\ UNCHANGED allButTxs

\* executeTransaction lines 823-847
ExecTxError(errorMessage) ==
    /\ op \in ExecOps /\ pc = "await" /\ ~noWait
    /\ Delivers(txs[1])
    /\ txs' = [txs EXCEPT ![1] = PoolOnError(txs[1], errorMessage)]
    /\ UNCHANGED allButTxs

\* executeTransaction lines 792-803
ExecTxTimeout ==
    /\ op \in ExecOps /\ pc = "await" /\ ~noWait
    /\ txs[1].timer = "armed"
    /\ txs' = [txs EXCEPT ![1] = SoloOnTimeout(txs[1])]
    /\ UNCHANGED allButTxs

ExecEvents ==
    \/ \E accepted \in BOOLEAN : ExecSubmitSettled(accepted)
    \/ ExecTxIncluded
    \/ \E m \in ErrorMessages : ExecTxError(m)
    \/ ExecTxTimeout

\* lines 1131-1170: an executeTransaction returns (the next transaction of the
\* hybrid is submitted, or the hybrid is counted) or throws (caught: next hybrid)
HybridAwait ==
    /\ op = "createHybridStakers" /\ pc = "await"
    /\ txs[1].promise # "pending"
    /\ IF txs[1].promise = "rejected"
       THEN /\ pc' = "loop"
            /\ loopIndex' = loopIndex + 1
            /\ txs' = <<>>
            /\ txStep' = 0
            /\ UNCHANGED <<writeCalls, createdHybrids>>
       ELSE IF txStep < HybridSteps
       THEN /\ txStep' = txStep + 1
            /\ writeCalls' = writeCalls + 1
            /\ txs' = <<IF noWait THEN NewSubmittedTx ELSE NewWatchedTx>>
            /\ UNCHANGED <<pc, loopIndex, createdHybrids>>
       ELSE /\ pc' = "loop"
            /\ createdHybrids' = createdHybrids + 1
            /\ loopIndex' = loopIndex + 1
            /\ txs' = <<>>
            /\ txStep' = 0
            /\ UNCHANGED writeCalls
    /\ UNCHANGED <<notHybrid, op, returned, flagVars, mainVars, memberVars, rangeVars, stakeAmounts, chainValidators,
                   validatorsPerNominator, validatorStartIndex, allValidators,
                   currentValidatorIndex, nextValidatorIndex, hybridInputs,
                   selectedValidators>>

\* lines 1173-1181
HybridReturn ==
    /\ op = "createHybridStakers" /\ pc = "loop"
    /\ loopIndex > hybridCount
    /\ pc' = "done"
    /\ returned' = "value"
    /\ nextValidatorIndex' = currentValidatorIndex
    /\ UNCHANGED <<notHybrid, op, flagVars, mainVars, memberVars, rangeVars, stakeAmounts, chainValidators, writeCalls, txs,
                   validatorsPerNominator, validatorStartIndex, allValidators,
                   currentValidatorIndex, hybridVars>>

NextHybrid ==
    \/ HybridStart
    \/ HybridPlan
    \/ ExecEvents
    \/ HybridAwait
    \/ HybridReturn

SpecHybrid == InitHybrid /\ [][NextHybrid]_vars

(* ---------------------------------------------------------------------- *)
(* destroyPools                                                            *)
(* ---------------------------------------------------------------------- *)
\* what the chain holds for a pool id: no pool, a pool with a foreign root, an
\* owned pool without members, with its creator as only member, with members
PoolKinds == {"absent", "foreign", "empty", "creatorOnly", "members"}

\* the sequences over S of length at most n
SeqsUpTo(S, n) == UNION {[1..k -> S] : k \in 0..n}

\* lines 35-97: what one pass of the loop decides for a pool before any
\* transaction is built
DestroyPlan(kind, dryRun) ==
    IF kind = "absent" THEN "notFound"
    ELSE IF kind = "foreign" THEN "notOwned"
    ELSE IF dryRun THEN "destroy"
    ELSE IF kind = "members" THEN "failed"
    ELSE "destroy"

Bump(r, field) == [r EXCEPT ![field] = @ + 1]

DestroyOptions ==
    /\ op = "destroyPools"
    /\ godBalance = 0
    /\ returned = "no"
    /\ poolIds \in SeqsUpTo(1..MaxPools, MaxPools)
    /\ poolKind \in [1..MaxPools -> PoolKinds]
    /\ isDryRun \in BOOLEAN
    /\ noWait = FALSE /\ skipCheckAccount = FALSE /\ parallelBatches = 1
    /\ results = [checked |-> 0, destroyed |-> 0, failed |-> 0, notFound |-> 0,
                  notOwned |-> 0]
    /\ loopIndex = 1
    /\ writeCalls = 0 /\ txs = <<>>
    /\ SoloUnused
    /\ hybridCount = 0 /\ createdPoolIds = <<>> /\ txStep = 0
    /\ selectedValidators = <<>> /\ createdHybrids = 0
    /\ CreatePoolsUnused /\ RemoveUnused /\ UnbondUnused

InitDestroy ==
    /\ DestroyOptions
    /\ pc = "loop"
    /\ CalledDirectly
    /\ lastPoolId = 0

destroyFrame ==
    <<op, returned, flagVars, mainVars, memberVars, rangeVars, stakeAmounts, chainVars, existenceQueries, batch, batches, chunkStart,
      stakeInputs, stakeLocals, createVars, topupVars, hybridInputs, txStep,
      selectedValidators, createdHybrids, destroyVars, createPoolsVars, removeVars,
      unbondVars>>

\* lines 29-125: one pool is checked; a real run of a pool that can be
\* destroyed submits set_state(Destroying) and waits for it
DestroyCheckPool ==
    /\ op = "destroyPools" /\ pc = "loop"
    /\ loopIndex <= Len(poolIds)
    /\ LET plan == DestroyPlan(poolKind[poolIds[loopIndex]], isDryRun)
           checked == Bump(results, "checked")
       IN IF plan = "destroy" /\ ~isDryRun
          THEN /\ results' = checked
               /\ writeCalls' = writeCalls + 1
               /\ txs' = <<NewWatchedTx>>
               /\ pc' = "await"
               /\ UNCHANGED loopIndex
          ELSE /\ results' = Bump(checked, IF plan = "destroy" THEN "destroyed" ELSE plan)
               /\ loopIndex' = loopIndex + 1
               /\ UNCHANGED <<pc, writeCalls, txs>>
    /\ UNCHANGED destroyFrame

\* lines 126-150: txBestBlocksState, with or without a dispatch error
DestroyTxBestBlock(dispatchError) ==
    /\ op = "destroyPools" /\ pc = "await"
    /\ Delivers(txs[1])
    /\ txs' = [txs EXCEPT ![1] = CmdSettle(txs[1], "resolved", "included")]
    /\ results' = Bump(results, IF dispatchError THEN "failed" ELSE "destroyed")
    /\ UNCHANGED <<destroyFrame, pc, loopIndex, writeCalls>>

\* lines 151-164: txInvalid
DestroyTxInvalid ==
    /\ op = "destroyPools" /\ pc = "await"
    /\ Delivers(txs[1])
    /\ txs' = [txs EXCEPT ![1] = CmdSettle(txs[1], "resolved", "invalid")]
    /\ results' = Bump(results, "failed")
    /\ UNCHANGED <<destroyFrame, pc, loopIndex, writeCalls>>

\* lines 166-179: the error callback counts a failure and resolves
DestroyTxError ==
    /\ op = "destroyPools" /\ pc = "await"
    /\ Delivers(txs[1])
    /\ txs' = [txs EXCEPT ![1] = CmdSettle(txs[1], "resolved", "error")]
    /\ results' = Bump(results, "failed")
    /\ UNCHANGED <<destroyFrame, pc, loopIndex, writeCalls>>

\* lines 113-123: the timer rejects
DestroyTxTimeout ==
    /\ op = "destroyPools" /\ pc = "await"
    /\ txs[1].timer = "armed"
    /\ txs' = [txs EXCEPT ![1] = CmdOnTimeout(txs[1])]
    /\ UNCHANGED <<destroyFrame, pc, loopIndex, writeCalls, results>>

\* the wait ends without the catch block's count
DestroyAwaitUncounted ==
    /\ op = "destroyPools" /\ pc = "await"
    /\ txs[1].promise # "pending"
    /\ txs' = <<>>
    /\ loopIndex' = loopIndex + 1
    /\ pc' = "loop"
    /\ UNCHANGED <<destroyFrame, writeCalls, results>>

\* lines 183-190: the wait is over; a rejection is caught and counted
DestroyAwait ==
    /\ op = "destroyPools" /\ pc = "await"
    /\ txs[1].promise # "pending"
    /\ results' = IF txs[1].promise = "rejected" THEN Bump(results, "failed") ELSE results
    /\ txs' = <<>>
    /\ loopIndex' = loopIndex + 1
    /\ pc' = "loop"
    /\ UNCHANGED <<destroyFrame, writeCalls>>

\* lines 193-202
DestroyReturn ==
    /\ op = "destroyPools" /\ pc = "loop"
    /\ loopIndex > Len(poolIds)
    /\ pc' = "done"
    /\ returned' = "undefined"
    /\ UNCHANGED <<op, flagVars, mainVars, memberVars, rangeVars, stakeAmounts, chainVars, ioVars, batchVars, stakeInputs, stakeLocals,
                   createVars, topupVars, hybridVars, poolCmdVars>>

NextDestroy ==
    \/ DestroyCheckPool
    \/ \E dispatchError \in BOOLEAN : DestroyTxBestBlock(dispatchError)
    \/ DestroyTxInvalid
    \/ DestroyTxError
    \/ DestroyTxTimeout
    \/ DestroyAwait
    \/ DestroyReturn

SpecDestroy == InitDestroy /\ [][NextDestroy]_vars

(* ---------------------------------------------------------------------- *)
(* createPools                                                             *)
(* ---------------------------------------------------------------------- *)
\* the transactions of one pool: fund the creator, create the pool
CreatePoolsSteps == 2

\* lines 874-875, 894: fundingAmount = actualPoolStake + actualPoolStake / 10n
fundingAmount == PoolStake + (PoolStake \div 10)

CreatePoolsOptions ==
    /\ op = "createPools"
    /\ godBalance = 0
    /\ pc = "start"
    /\ lastPoolId \in 0..1
    /\ returned = "no"
    /\ poolCount \in 0..MaxPools
    /\ maxPools \in {1, MaxPools}
    /\ createdPools = <<>> /\ totalFundingNeeded = 0
    /\ isDryRun \in BOOLEAN
    /\ noWait \in BOOLEAN
    /\ skipCheckAccount = FALSE /\ parallelBatches = 1
    /\ loopIndex = 0 /\ txStep = 0
    /\ writeCalls = 0 /\ txs = <<>>
    /\ SoloUnused
    /\ hybridCount = 0 /\ createdPoolIds = <<>>
    /\ selectedValidators = <<>> /\ createdHybrids = 0
    /\ DestroyUnused /\ RemoveUnused /\ UnbondUnused
    /\ results = NoResults

InitCreatePools ==
    /\ CreatePoolsOptions
    /\ CalledDirectly

createPoolsFrame ==
    <<op, flagVars, mainVars, memberCount, createdMembers, joinedPoolIds, rangeVars, stakeAmounts, chainVars, existenceQueries, batch, batches, chunkStart,
      stakeInputs, stakeLocals, createVars, topupVars, hybridInputs,
      selectedValidators, createdHybrids, destroyVars, poolCount, maxPools,
      removeVars, unbondVars, results>>

\* lines 866-890: the chain limit is checked before anything is planned
CreatePoolsStart ==
    /\ op = "createPools" /\ pc = "start"
    /\ IF poolCount > maxPools
       THEN /\ pc' = "done"
            /\ returned' = "value"
            /\ UNCHANGED loopIndex
       ELSE /\ pc' = "loop"
            /\ loopIndex' = 1
            /\ UNCHANGED returned
    /\ UNCHANGED <<createPoolsFrame, writeCalls, txs, txStep, createdPools,
                   totalFundingNeeded, lastPoolId, poolsOfRun>>

\* lines 892-914: pool i is planned; a dry run records it, a real run submits
\* the funding transfer
CreatePoolsPlan ==
    /\ op = "createPools" /\ pc = "loop"
    /\ loopIndex <= poolCount
    /\ totalFundingNeeded' = totalFundingNeeded + fundingAmount
    /\ IF isDryRun
       THEN /\ createdPools' = Append(createdPools, loopIndex)
            /\ loopIndex' = loopIndex + 1
            /\ UNCHANGED <<pc, writeCalls, txs, txStep>>
       ELSE /\ txStep' = 1
            /\ writeCalls' = writeCalls + 1
            /\ txs' = <<IF noWait THEN NewSubmittedTx ELSE NewWatchedTx>>
            /\ pc' = "await"
            /\ UNCHANGED <<createdPools, loopIndex>>
    /\ UNCHANGED <<createPoolsFrame, returned, lastPoolId, poolsOfRun>>

\* whether the chain executed a transaction: it did when its inclusion was
\* reported, it did not when an error was reported, and the program cannot
\* tell after a timeout, an infrastructure error or a fire-and-forget submit
ChainExecuted(tx, unseen) ==
    \/ tx.settledBy = "included"
    \/ tx.settledBy \in {"timeout", "infraError", "submitted"} /\ unseen

\* NominationPools.create executed: the chain gives the pool the next id
ChainCreatesPool(created) ==
    IF created
    THEN /\ lastPoolId' = lastPoolId + 1
         /\ poolsOfRun' = poolsOfRun \cup {lastPoolId + 1}
    ELSE UNCHANGED <<lastPoolId, poolsOfRun>>

\* lines 914-930: an executeTransaction returns (the pool is created next, or
\* recorded) or throws (caught: next pool)
CreatePoolsAwait(unseen) ==
    /\ op = "createPools" /\ pc = "await"
    /\ txs[1].promise # "pending"
    /\ ChainCreatesPool(txStep = CreatePoolsSteps /\ ChainExecuted(txs[1], unseen))
    /\ IF txs[1].promise = "rejected"
       THEN /\ pc' = "loop"
            /\ loopIndex' = loopIndex + 1
            /\ txs' = <<>>
            /\ txStep' = 0
            /\ UNCHANGED <<writeCalls, createdPools>>
       ELSE IF txStep < CreatePoolsSteps
       THEN /\ txStep' = txStep + 1
            /\ writeCalls' = writeCalls + 1
            /\ txs' = <<IF noWait THEN NewSubmittedTx ELSE NewWatchedTx>>
            /\ UNCHANGED <<pc, loopIndex, createdPools>>
       ELSE /\ pc' = "loop"
            /\ createdPools' = Append(createdPools, loopIndex)
            /\ loopIndex' = loopIndex + 1
            /\ txs' = <<>>
            /\ txStep' = 0
            /\ UNCHANGED writeCalls
    /\ UNCHANGED <<createPoolsFrame, returned, totalFundingNeeded>>

\* lines 933-940
CreatePoolsReturn ==
    /\ op = "createPools" /\ pc = "loop"
    /\ loopIndex > poolCount
    /\ pc' = "done"
    /\ returned' = "value"
    /\ UNCHANGED <<createPoolsFrame, writeCalls, txs, txStep, loopIndex, createdPools,
                   totalFundingNeeded, lastPoolId, poolsOfRun>>

NextCreatePools ==
    \/ CreatePoolsStart
    \/ CreatePoolsPlan
    \/ ExecEvents
    \/ \E unseen \in BOOLEAN : CreatePoolsAwait(unseen)
    \/ CreatePoolsReturn

SpecCreatePools == InitCreatePools /\ [][NextCreatePools]_vars

(* ---------------------------------------------------------------------- *)
(* createPoolMembers, and a run that creates pools and then their members  *)
(* ---------------------------------------------------------------------- *)
\* the transactions of one member: fund the account, join the pool
MemberSteps == 2

memberFrame ==
    <<op, flagVars, mainVars, rangeVars, stakeAmounts, chainVars, existenceQueries, batch,
      batches, chunkStart, stakeInputs, stakeLocals, createVars, topupVars, hybridInputs,
      selectedValidators, createdHybrids, destroyVars, createPoolsVars, removeVars,
      unbondVars, results, lastPoolId, poolsOfRun, memberCount>>

\* const poolId = createdPoolIds[(i - 1) % createdPoolIds.length]
MemberPoolId(i) == createdPoolIds[((i - 1) % Len(createdPoolIds)) + 1]

\* lines 957-970: without a pool to join, or beyond the chain's member limit,
\* nothing is created
MembersStart ==
    /\ op = "createPoolMembers" /\ pc = "start"
    /\ IF Len(createdPoolIds) = 0 \/ memberCount > maxPoolMembers
       THEN /\ pc' = "done"
            /\ returned' = "value"
            /\ UNCHANGED loopIndex
       ELSE /\ pc' = "loop"
            /\ loopIndex' = 1
            /\ UNCHANGED returned
    /\ UNCHANGED <<memberFrame, writeCalls, txs, txStep, createdMembers, joinedPoolIds>>

\* lines 985-1003: member i is planned; a dry run counts it, a real run
\* submits the funding transfer
MembersPlan ==
    /\ op = "createPoolMembers" /\ pc = "loop"
    /\ loopIndex <= memberCount
    /\ IF isDryRun
       THEN /\ createdMembers' = createdMembers + 1
            /\ loopIndex' = loopIndex + 1
            /\ UNCHANGED <<pc, writeCalls, txs, txStep>>
       ELSE /\ txStep' = 1
            /\ writeCalls' = writeCalls + 1
            /\ txs' = <<IF noWait THEN NewSubmittedTx ELSE NewWatchedTx>>
            /\ pc' = "await"
            /\ UNCHANGED <<createdMembers, loopIndex>>
    /\ UNCHANGED <<memberFrame, returned, joinedPoolIds>>

\* lines 1003-1025: an executeTransaction returns (the join is submitted next,
\* or the member is counted) or throws (caught: next member)
MembersAwait ==
    /\ op = "createPoolMembers" /\ pc = "await"
    /\ txs[1].promise # "pending"
    /\ IF txs[1].promise = "rejected"
       THEN /\ pc' = "loop"
            /\ loopIndex' = loopIndex + 1
            /\ txs' = <<>>
            /\ txStep' = 0
            /\ UNCHANGED <<writeCalls, createdMembers, joinedPoolIds>>
       ELSE IF txStep < MemberSteps
       THEN /\ txStep' = txStep + 1
            /\ writeCalls' = writeCalls + 1
            /\ txs' = <<IF noWait THEN NewSubmittedTx ELSE NewWatchedTx>>
            /\ joinedPoolIds' = Append(joinedPoolIds, MemberPoolId(loopIndex))
            /\ UNCHANGED <<pc, loopIndex, createdMembers>>
       ELSE /\ pc' = "loop"
            /\ createdMembers' = createdMembers + 1
            /\ loopIndex' = loopIndex + 1
            /\ txs' = <<>>
            /\ txStep' = 0
            /\ UNCHANGED <<writeCalls, joinedPoolIds>>
    /\ UNCHANGED <<memberFrame, returned>>

\* lines 1028-1036
MembersReturn ==
    /\ op = "createPoolMembers" /\ pc = "loop"
    /\ loopIndex > memberCount
    /\ pc' = "done"
    /\ returned' = "value"
    /\ UNCHANGED <<memberFrame, writeCalls, txs, txStep, loopIndex, createdMembers,
                   joinedPoolIds>>

\* one command creates pools and then members: the pool ids createPools
\* returned are the pools the members join
InitPoolRun ==
    /\ CreatePoolsOptions
    /\ mode = "poolRun" /\ cliError = "none" /\ mainPc = "none"
    /\ exitCode = 0 /\ opened = 0 /\ closed = 0
    /\ stakeAmounts = <<>>
    /\ transferBatch = 0 /\ stakeBatch = 0
    /\ poolsOfRun = {} /\ createdMembers = 0 /\ joinedPoolIds = <<>>
    /\ memberCount \in 0..MaxMembers
    /\ RangeUnused

PoolRunCallMembers ==
    /\ mode = "poolRun" /\ op = "createPools" /\ pc = "done"
    /\ memberCount > 0 /\ poolCount > 0
    /\ Len(createdPools) > 0
    /\ op' = "createPoolMembers"
    /\ pc' = "start"
    /\ returned' = "no"
    /\ createdPoolIds' = createdPools
    /\ loopIndex' = 0 /\ txStep' = 0 /\ txs' = <<>>
    /\ UNCHANGED <<flagVars, mainVars, memberVars, rangeVars, stakeAmounts, chainVars,
                   ioVars, batch, batches, chunkStart, stakeInputs, stakeLocals,
                   createVars, topupVars, hybridCount, selectedValidators, createdHybrids,
                   poolCmdVars>>

NextPoolRun ==
    \/ NextCreatePools
    \/ PoolRunCallMembers
    \/ MembersStart
    \/ MembersPlan
    \/ MembersAwait
    \/ MembersReturn

SpecPoolRun == InitPoolRun /\ [][NextPoolRun]_vars

(* ---------------------------------------------------------------------- *)
(* removeFromPool                                                          *)
(* ---------------------------------------------------------------------- *)
\* a controllable member: bonded in the pool, already unbonding, or neither
MemberKinds == {"bonded", "unbonding", "idle"}

RemoveOptions ==
    /\ op = "removeFromPool"
    /\ godBalance = 0
    /\ returned = "no"
    /\ parseOk \in BOOLEAN
    /\ poolExists \in BOOLEAN
    /\ membersToProcess \in SeqsUpTo(MemberKinds, MaxPools)
    /\ creatorIsLastOfOpenPool \in BOOLEAN
    /\ creatorIsLastOfOpenPool => Len(membersToProcess) = 1
    /\ isDryRun \in BOOLEAN
    /\ noWait = FALSE /\ skipCheckAccount = FALSE /\ parallelBatches = 1
    /\ results = NoResults
    /\ loopIndex = 0 /\ txStep = 0
    /\ writeCalls = 0 /\ txs = <<>>
    /\ SoloUnused
    /\ hybridCount = 0 /\ createdPoolIds = <<>>
    /\ selectedValidators = <<>> /\ createdHybrids = 0
    /\ DestroyUnused /\ CreatePoolsUnused /\ UnbondUnused

InitRemove ==
    /\ RemoveOptions
    /\ pc = "start"
    /\ CalledDirectly
    /\ lastPoolId = 0

cmdFrame ==
    <<op, flagVars, mainVars, memberVars, rangeVars, stakeAmounts, chainVars, existenceQueries, batch, batches, chunkStart,
      stakeInputs, stakeLocals, createVars, topupVars, hybridInputs, txStep,
      selectedValidators, createdHybrids, destroyVars, createPoolsVars, removeVars,
      accountIndices, accountKind>>

\* lines 347-572: every early return, the dry-run return among them, comes
\* before the first transaction is built
RemoveStart ==
    /\ op = "removeFromPool" /\ pc = "start"
    /\ IF \/ ~parseOk
          \/ ~poolExists
          \/ Len(membersToProcess) = 0
          \/ creatorIsLastOfOpenPool
          \/ isDryRun
       THEN /\ pc' = "done"
            /\ returned' = "undefined"
            /\ UNCHANGED <<results, loopIndex>>
       ELSE /\ pc' = "loop"
            /\ results' = [unbonded |-> 0, withdrawn |-> 0, failed |-> 0]
            /\ loopIndex' = 1
            /\ UNCHANGED returned
    /\ UNCHANGED <<cmdFrame, accountsToUnbond, writeCalls, txs>>

\* lines 574-606, 649-675: unbond, withdraw_unbonded, or nothing to do
RemoveMember ==
    /\ op = "removeFromPool" /\ pc = "loop"
    /\ loopIndex <= Len(membersToProcess)
    /\ IF membersToProcess[loopIndex] = "idle"
       THEN /\ loopIndex' = loopIndex + 1
            /\ UNCHANGED <<pc, writeCalls, txs>>
       ELSE /\ writeCalls' = writeCalls + 1
            /\ txs' = <<NewWatchedTx>>
            /\ pc' = "await"
            /\ UNCHANGED loopIndex
    /\ UNCHANGED <<cmdFrame, accountsToUnbond, returned, results>>

\* lines 607-627, 676-696
RemoveTxBestBlock(dispatchError) ==
    /\ op = "removeFromPool" /\ pc = "await"
    /\ Delivers(txs[1])
    /\ txs' = [txs EXCEPT ![1] = CmdSettle(txs[1], "resolved", "included")]
    /\ results' = Bump(results,
                       IF dispatchError THEN "failed"
                       ELSE IF membersToProcess[loopIndex] = "bonded" THEN "unbonded"
                       ELSE "withdrawn")
    /\ UNCHANGED <<cmdFrame, accountsToUnbond, returned, pc, loopIndex, writeCalls>>

\* lines 629-642, 698-711
RemoveTxError ==
    /\ op = "removeFromPool" /\ pc = "await"
    /\ Delivers(txs[1])
    /\ txs' = [txs EXCEPT ![1] = CmdSettle(txs[1], "resolved", "error")]
    /\ results' = Bump(results, "failed")
    /\ UNCHANGED <<cmdFrame, accountsToUnbond, returned, pc, loopIndex, writeCalls>>

\* lines 594-604, 663-673
RemoveTxTimeout ==
    /\ op = "removeFromPool" /\ pc = "await"
    /\ txs[1].timer = "armed"
    /\ txs' = [txs EXCEPT ![1] = CmdOnTimeout(txs[1])]
    /\ UNCHANGED <<cmdFrame, accountsToUnbond, returned, pc, loopIndex, writeCalls,
                   results>>

\* lines 645-648, 714-717
RemoveAwait ==
    /\ op = "removeFromPool" /\ pc = "await"
    /\ txs[1].promise # "pending"
    /\ results' = IF txs[1].promise = "rejected" THEN Bump(results, "failed") ELSE results
    /\ txs' = <<>>
    /\ loopIndex' = loopIndex + 1
    /\ pc' = "loop"
    /\ UNCHANGED <<cmdFrame, accountsToUnbond, returned, writeCalls>>

\* lines 721-734
RemoveReturn ==
    /\ op = "removeFromPool" /\ pc = "loop"
    /\ loopIndex > Len(membersToProcess)
    /\ pc' = "done"
    /\ returned' = "undefined"
    /\ UNCHANGED <<cmdFrame, accountsToUnbond, results, loopIndex, writeCalls, txs>>

NextRemove ==
    \/ RemoveStart
    \/ RemoveMember
    \/ \E dispatchError \in BOOLEAN : RemoveTxBestBlock(dispatchError)
    \/ RemoveTxError
    \/ RemoveTxTimeout
    \/ RemoveAwait
    \/ RemoveReturn

SpecRemove == InitRemove /\ [][NextRemove]_vars

(* ---------------------------------------------------------------------- *)
(* unbondAccounts                                                          *)
(* ---------------------------------------------------------------------- *)
\* what the chain holds for an account index: nothing staked, a solo bond, a
\* solo bond with nominations, pool points, or both kinds of stake
AccountKinds == {"unstaked", "bonded", "nominating", "member", "hybrid"}

isNominating(kind) == kind \in {"nominating", "hybrid"}
hasBond(kind) == kind \in {"bonded", "nominating", "hybrid"}
hasPoolPoints(kind) == kind \in {"member", "hybrid"}

UnbondOptions ==
    /\ op = "unbondAccounts"
    /\ godBalance = 0
    /\ returned = "no"
    /\ accountIndices \in SeqsUpTo(1..MaxPools, MaxPools)
    /\ accountKind \in [1..MaxPools -> AccountKinds]
    /\ accountsToUnbond = <<>>
    /\ isDryRun \in BOOLEAN
    /\ noWait = FALSE /\ skipCheckAccount = FALSE /\ parallelBatches = 1
    /\ results = NoResults
    /\ loopIndex = 0 /\ txStep = 0
    /\ writeCalls = 0 /\ txs = <<>>
    /\ SoloUnused
    /\ hybridCount = 0 /\ createdPoolIds = <<>>
    /\ selectedValidators = <<>> /\ createdHybrids = 0
    /\ DestroyUnused /\ CreatePoolsUnused /\ RemoveUnused

InitUnbond ==
    /\ UnbondOptions
    /\ pc = "start"
    /\ CalledDirectly
    /\ lastPoolId = 0

\* lines 176-296: the accounts with a bond or pool points are collected; the
\* run returns if there is none, and a dry run returns after listing them
UnbondScan ==
    /\ op = "unbondAccounts" /\ pc = "start"
    /\ LET found == SelectSeq(accountIndices,
                              LAMBDA index : hasBond(accountKind[index])
                                             \/ hasPoolPoints(accountKind[index]))
       IN /\ accountsToUnbond' = found
          /\ IF Len(found) = 0 \/ isDryRun
             THEN /\ pc' = "done"
                  /\ returned' = "undefined"
                  /\ UNCHANGED <<results, loopIndex>>
             ELSE /\ pc' = "loop"
                  /\ results' = [chilled |-> 0, unbonded |-> 0, poolLeft |-> 0,
                                 errors |-> 0]
                  /\ loopIndex' = 1
                  /\ UNCHANGED returned
    /\ UNCHANGED <<cmdFrame, writeCalls, txs>>

\* lines 298-372: the calls of one account are collected and counted, and one
\* transaction (a batch_all if there are several calls) is submitted
UnbondAccount ==
    /\ op = "unbondAccounts" /\ pc = "loop"
    /\ loopIndex <= Len(accountsToUnbond)
    /\ LET kind == accountKind[accountsToUnbond[loopIndex]]
           r1 == IF isNominating(kind) THEN Bump(results, "chilled") ELSE results
           r2 == IF hasBond(kind) THEN Bump(r1, "unbonded") ELSE r1
       IN results' = IF hasPoolPoints(kind) THEN Bump(r2, "poolLeft") ELSE r2
    /\ writeCalls' = writeCalls + 1
    /\ txs' = <<NewWatchedTx>>
    /\ pc' = "await"
    /\ UNCHANGED <<cmdFrame, accountsToUnbond, returned, loopIndex>>

\* lines 373-387
UnbondTxBestBlock ==
    /\ op = "unbondAccounts" /\ pc = "await"
    /\ Delivers(txs[1])
    /\ txs' = [txs EXCEPT ![1] = CmdSettle(txs[1], "resolved", "included")]
    /\ UNCHANGED <<cmdFrame, accountsToUnbond, returned, pc, loopIndex, writeCalls,
                   results>>

\* lines 388-401: the error callback counts an error and rejects
UnbondTxError ==
    /\ op = "unbondAccounts" /\ pc = "await"
    /\ Delivers(txs[1])
    /\ txs' = [txs EXCEPT ![1] = CmdSettle(txs[1], "rejected", "error")]
    /\ results' = Bump(results, "errors")
    /\ UNCHANGED <<cmdFrame, accountsToUnbond, returned, pc, loopIndex, writeCalls>>

\* lines 359-370: the timer counts an error and rejects
UnbondTxTimeout ==
    /\ op = "unbondAccounts" /\ pc = "await"
    /\ txs[1].timer = "armed"
    /\ txs' = [txs EXCEPT ![1] = CmdOnTimeout(txs[1])]
    /\ results' = Bump(results, "errors")
    /\ UNCHANGED <<cmdFrame, accountsToUnbond, returned, pc, loopIndex, writeCalls>>

\* lines 403-409: a rejection is caught and counted once more
UnbondAwait ==
    /\ op = "unbondAccounts" /\ pc = "await"
    /\ txs[1].promise # "pending"
    /\ results' = IF txs[1].promise = "rejected" THEN Bump(results, "errors") ELSE results
    /\ txs' = <<>>
    /\ loopIndex' = loopIndex + 1
    /\ pc' = "loop"
    /\ UNCHANGED <<cmdFrame, accountsToUnbond, returned, writeCalls>>

\* lines 411-431
UnbondReturn ==
    /\ op = "unbondAccounts" /\ pc = "loop"
    /\ loopIndex > Len(accountsToUnbond)
    /\ pc' = "done"
    /\ returned' = "undefined"
    /\ UNCHANGED <<cmdFrame, accountsToUnbond, results, loopIndex, writeCalls, txs>>

NextUnbond ==
    \/ UnbondScan
    \/ UnbondAccount
    \/ UnbondTxBestBlock
    \/ UnbondTxError
    \/ UnbondTxTimeout
    \/ UnbondAwait
    \/ UnbondReturn

SpecUnbond == InitUnbond /\ [][NextUnbond]_vars

(* ---------------------------------------------------------------------- *)
(* Specifications over several operations                                  *)
(* ---------------------------------------------------------------------- *)
\* the operations that assign validators
InitAssign == InitStake \/ InitHybrid
NextAssign == NextStake \/ NextHybrid
SpecAssign == InitAssign /\ [][NextAssign]_vars

\* the operations of solo-nominators.ts
InitSolo == InitCreate \/ InitStake \/ InitTopup
NextSolo == NextCreate \/ NextStake \/ NextTopup
SpecSolo == InitSolo /\ [][NextSolo]_vars

\* one run of any operation
Init ==
    \/ InitCreate \/ InitStake \/ InitTopup
    \/ InitCreatePools \/ InitHybrid
    \/ InitDestroy \/ InitRemove \/ InitUnbond
Next ==
    \/ NextCreate \/ NextStake \/ NextTopup
    \/ NextCreatePools \/ NextHybrid
    \/ NextDestroy \/ NextRemove \/ NextUnbond
Spec == Init /\ [][Next]_vars

(* ---------------------------------------------------------------------- *)
(* main(): the command line is parsed, one mode is dispatched, the         *)
(* connection is set up, the operation runs, the connection is torn down   *)
(* ---------------------------------------------------------------------- *)
SoloModes == {"createOnly", "stakeOnly", "default"}
ListModes == {"listAccounts", "listPools"}

\* what main() itself never assigns
mainRest ==
    <<flagVars, chainVars, ioVars, batchVars, validatorsPerNominator, validatorStartIndex,
      stakeLocals, createVars, topupVars, hybridVars, poolCmdVars, godBalance, mode,
      cliError, transferBatch, stakeBatch, memberVars, rangeVars>>

\* main() has not called an operation yet
MainNotStarted ==
    /\ pc = "main" /\ mainPc = "parse"
    /\ exitCode = 0 /\ opened = 0 /\ closed = 0
    /\ stakeAmounts = <<>>
    /\ lastPoolId = 0 /\ MembersUnused /\ RangeUnused

\* lines 398-404: the batch options are parsed with parseInt and handed on as
\* they are (0 stands for an option that was not given)
MainSoloOptions ==
    /\ mode \in SoloModes
    /\ cliError \in {"none", "conflictingFlags"}
    /\ op = (IF mode = "stakeOnly" THEN "stakeAndNominate" ELSE "createAccounts")
    /\ returned = "no"
    /\ godBalance = 0
    /\ targetCount \in 0..MainNominators
    /\ startIndex = 1 /\ checkBatchArg = 0
    /\ existsOnChain \in SUBSET {1}
    /\ (mode = "stakeOnly" => existsOnChain = {})
    /\ transferBatch \in (IF mode = "stakeOnly" THEN {0} ELSE {0, 1, MaxTransferBatch + 1})
    /\ stakeBatch \in (IF mode = "createOnly" THEN {0} ELSE {0, MaxStakeBatch + 1})
    /\ batchSize = 0
    /\ isDryRun \in BOOLEAN
    /\ noWait \in BOOLEAN
    /\ skipCheckAccount \in BOOLEAN
    /\ (skipCheckAccount => mode = "createOnly")
    /\ parallelBatches \in {1, MaxParallelBatches + 1}
    /\ \/ mode = "createOnly" /\ StakeUnused
       \/ /\ mode # "createOnly"
          /\ validatorsPerNominator = 1 /\ validatorStartIndex = 0
          /\ chainValidators \in {ValidatorSet(0), ValidatorSet(2)}
          /\ ledgerOnChain = {} /\ nominatorsOnChain = {}
          /\ allValidators = <<>> /\ validatorAssignments = EmptyTable
          /\ currentValidatorIndex = validatorStartIndex
          /\ processedIndex = 0 /\ stakedCount = 0 /\ nextValidatorIndex = -1
    /\ availableIndices = <<>> /\ currentCheckIndex = startIndex /\ totalChecked = 0
    /\ createdCount = 0 /\ processedIndices = 0
    /\ createdAccountIndices = <<>> /\ skippedCount = 0
    /\ writeCalls = 0 /\ existenceQueries = 0
    /\ batch = <<>> /\ batches = <<>> /\ txs = <<>> /\ chunkStart = 0
    /\ TopupUnused /\ HybridUnused /\ PoolCmdUnused

\* the modes that run no operation of the model: the two listings and the
\* pool-creation options, which main() refuses
MainOtherOptions ==
    /\ mode \in ListModes \cup {"pool"}
    /\ cliError = "none"
    /\ op = mode
    /\ returned = "no"
    /\ godBalance = 0
    /\ isDryRun = FALSE /\ noWait = FALSE /\ skipCheckAccount = FALSE
    /\ parallelBatches = 1
    /\ writeCalls = 0 /\ txs = <<>>
    /\ SoloUnused /\ HybridUnused /\ PoolCmdUnused
    /\ transferBatch = 0 /\ stakeBatch = 0

InitMain ==
    /\ MainNotStarted
    /\ \/ MainSoloOptions
       \/ MainOtherOptions
       \/ /\ TopupOptions /\ mode = "topup"
          /\ cliError \in {"none", "missingFromTo"}
          /\ transferBatch = 0 /\ stakeBatch = 0
       \/ /\ DestroyOptions /\ mode = "destroy"
          /\ cliError \in {"none", "malformedRange"}
          /\ transferBatch = 0 /\ stakeBatch = 0
       \/ /\ UnbondOptions /\ mode = "unbond"
          /\ cliError \in {"none", "malformedRange"}
          /\ transferBatch = 0 /\ stakeBatch = 0
       \/ /\ RemoveOptions /\ mode = "remove"
          /\ cliError = (IF parseOk THEN "none" ELSE "malformedPoolMembers")
          /\ transferBatch = 0 /\ stakeBatch = 0

\* process.exit(code), or the end of main() when the code is 0
Exit(code) ==
    /\ mainPc' = "exited"
    /\ exitCode' = code

\* lines 347-452: the dispatch.  parsePoolRange throws inside the try of the
\* unbond and destroy branches (exit 1); --create-only with --stake-only and
\* --topup without --from/--to exit 1; the pool-creation options exit 1;
\* removeFromPool is called with the unparsed string; every other branch
\* goes on to setupApiAndConnection
MainParse ==
    /\ mainPc = "parse"
    /\ IF cliError \in {"malformedRange", "conflictingFlags", "missingFromTo"}
          \/ mode = "pool"
       THEN /\ Exit(1)
            /\ UNCHANGED <<pc, opened>>
       ELSE IF cliError = "malformedPoolMembers"
       THEN /\ mainPc' = "run"
            /\ pc' = "start"
            /\ UNCHANGED <<exitCode, opened>>
       ELSE /\ mainPc' = "setup"
            /\ UNCHANGED <<pc, exitCode, opened>>
    /\ UNCHANGED <<op, returned, closed, stakeAmounts, createdAccountIndices, batchSize,
                   mainRest>>

\* lines 502-512 of main(): --stake-only rebuilds the account list and the
\* amounts from the index alone
StakeOnlyAmount(i) == MinNominatorBond + ((stakeRange * (i % 10)) \div 9)

\* the first position of each operation after its connection is set up
StartPc ==
    IF op = "stakeAndNominate" THEN "queryValidators"
    ELSE IF op = "destroyPools" THEN "loop"
    ELSE "start"

SetupOutcomes == {"ok", "invalidSeed", "queryFailed"}

\* common.ts setupApiAndConnection: the seed is validated before anything is
\* started; then smoldot is started and the client created; then the god
\* balance is read, and a failed or timed-out read is thrown again with
\* smoldot and the client left as they are.  A throw reaches main().catch,
\* or the catch of the unbond and destroy branches: exit 1 either way
MainSetup(outcome) ==
    /\ mainPc = "setup"
    /\ CASE outcome = "invalidSeed" ->
              /\ Exit(1)
              /\ UNCHANGED <<pc, opened, createdAccountIndices, stakeAmounts, batchSize>>
         [] outcome = "queryFailed" ->
              /\ opened' = opened + 1
              /\ Exit(1)
              /\ UNCHANGED <<pc, createdAccountIndices, stakeAmounts, batchSize>>
         [] outcome = "ok" ->
              /\ opened' = opened + 1
              /\ mainPc' = "run"
              /\ pc' = StartPc
              /\ UNCHANGED exitCode
              /\ IF mode = "stakeOnly"
                 THEN /\ createdAccountIndices' = AccountList(startIndex, targetCount)
                      /\ stakeAmounts' = [a \in startIndex..(startIndex + targetCount - 1)
                                            |-> StakeOnlyAmount(a - startIndex)]
                      /\ batchSize' = stakeBatch
                 ELSE IF mode \in SoloModes
                 THEN /\ batchSize' = transferBatch
                      /\ UNCHANGED <<createdAccountIndices, stakeAmounts>>
                 ELSE UNCHANGED <<createdAccountIndices, stakeAmounts, batchSize>>
    /\ UNCHANGED <<op, returned, closed, mainRest>>

\* listAccounts / listPools: reads only, inside try / finally
MainList(threw) ==
    /\ mainPc = "run" /\ mode \in ListModes /\ pc = "start"
    /\ pc' = "done"
    /\ returned' = (IF threw THEN "thrown" ELSE "undefined")
    /\ UNCHANGED <<op, mainVars, memberVars, rangeVars, stakeAmounts, createdAccountIndices, batchSize, flagVars,
                   chainVars, ioVars, batchVars, validatorsPerNominator,
                   validatorStartIndex, stakeLocals, createVars, topupVars, hybridVars,
                   poolCmdVars>>

\* lines 567-585: the default mode stakes what createAccounts created
StakesNext ==
    /\ mode = "default" /\ op = "createAccounts"
    /\ returned \in {"value", "undefined"}
    /\ Len(createdAccountIndices) > 0

MainCallStake ==
    /\ mainPc = "run" /\ pc = "done"
    /\ StakesNext
    /\ op' = "stakeAndNominate"
    /\ pc' = "queryValidators"
    /\ returned' = "no"
    /\ batchSize' = stakeBatch
    /\ batch' = <<>> /\ batches' = <<>> /\ txs' = <<>> /\ chunkStart' = 0
    /\ skippedCount' = 0
    /\ UNCHANGED <<mainVars, memberVars, rangeVars, stakeAmounts, createdAccountIndices, flagVars, chainVars,
                   ioVars, validatorsPerNominator, validatorStartIndex, allValidators,
                   validatorAssignments, currentValidatorIndex, processedIndex,
                   stakedCount, nextValidatorIndex, createVars, topupVars, hybridVars,
                   poolCmdVars>>

\* a main() whose last step ignores how the operation ended
MainFinishAlwaysZero ==
    /\ mainPc = "run" /\ pc = "done"
    /\ ~StakesNext
    /\ closed' = (IF opened > closed THEN closed + 1 ELSE closed)
    /\ Exit(0)
    /\ UNCHANGED <<op, pc, returned, opened, stakeAmounts, createdAccountIndices,
                   batchSize, mainRest>>

\* the finally of the branch (or of the operation) tears the connection down;
\* an operation that threw ends in main().catch, or in the catch of the
\* unbond and destroy branches: process.exit(1)
MainFinish ==
    /\ mainPc = "run" /\ pc = "done"
    /\ ~StakesNext
    /\ closed' = (IF opened > closed THEN closed + 1 ELSE closed)
    /\ Exit(IF returned = "thrown" THEN 1 ELSE 0)
    /\ UNCHANGED <<op, pc, returned, opened, stakeAmounts, createdAccountIndices,
                   batchSize, mainRest>>

NextMain ==
    \/ MainParse
    \/ \E outcome \in SetupOutcomes : MainSetup(outcome)
    \/ \E threw \in BOOLEAN : MainList(threw)
    \/ MainCallStake
    \/ MainFinish
    \/ NextCreate \/ NextStake \/ NextTopup
    \/ NextDestroy \/ NextRemove \/ NextUnbond
SpecMain == InitMain /\ [][NextMain]_vars

(* ---------------------------------------------------------------------- *)
(* Properties                                                              *)
(* ---------------------------------------------------------------------- *)
StakeReturned == op = "stakeAndNominate" /\ returned = "value"
HybridReturned == op = "createHybridStakers" /\ returned = "value"

\* K: the accounts whose validators were assigned when the operation returned
AssignedAccounts ==
    IF op = "stakeAndNominate" THEN Len(createdAccountIndices)
    ELSE IF Len(createdPoolIds) = 0 THEN 0
    ELSE hybridCount

StakeAssigned == op = "stakeAndNominate" /\ pc \in {"loop", "await"}

\* a hybrid staker has been given its validators
HybridAssigned ==
    /\ op = "createHybridStakers" /\ Len(chainValidators) > 0
    /\ \/ pc = "await"
       \/ pc \in {"loop", "done"} /\ loopIndex > 1

\* C2: every nominator of the list is assigned exactly min(P, V) validators,
\* all of them distinct (V validators when P > V).
C2_WindowIsMinAndDistinct ==
    /\ StakeAssigned =>
          \A a \in Range(createdAccountIndices) :
              /\ a \in DOMAIN validatorAssignments
              /\ Len(validatorAssignments[a]) =
                    Min(validatorsPerNominator, Len(chainValidators))
              /\ Cardinality(Range(validatorAssignments[a])) = Len(validatorAssignments[a])
              /\ Range(validatorAssignments[a]) \subseteq Range(chainValidators)
    /\ HybridAssigned =>
          /\ Len(selectedValidators) = Min(validatorsPerNominator, Len(chainValidators))
          /\ Cardinality(Range(selectedValidators)) = Len(selectedValidators)
          /\ Range(selectedValidators) \subseteq Range(chainValidators)

\* validators have been assigned with P > V to a nominator whose window wraps
C2_Witness ==
    /\ StakeAssigned
    /\ validatorsPerNominator > Len(chainValidators)
    /\ Len(chainValidators) >= 2
    /\ \E a \in Range(createdAccountIndices) :
          /\ a \in DOMAIN validatorAssignments
          /\ Len(validatorAssignments[a]) = Len(chainValidators)
          /\ validatorAssignments[a][1] # chainValidators[1]

StakeExample ==
    /\ op = "stakeAndNominate"
    /\ createdAccountIndices = AccountList(ExampleFirstAccount, ExampleNominators)
    /\ validatorsPerNominator = ExampleValidatorsPerNominator
    /\ validatorStartIndex = 0
    /\ Len(chainValidators) = ExampleValidatorsOnChain
    /\ stakeBatchSize = DefaultStakeBatchSize

\* C9: 10 nominator accounts, stake batch size 100, 16 validators per nominator,
\* start index 0, 150 validators on chain: exactly one batch of 10 bond+nominate
\* transactions is produced and the resulting cursor is 10.
C9_ExampleRun ==
    (StakeExample /\ returned = "value") =>
        /\ Len(batches) = 1
        /\ batches[1] = createdAccountIndices
        /\ Len(batches[1]) = ExampleNominators
        /\ stakedCount = ExampleNominators
        /\ (~isDryRun => writeCalls = ExampleNominators)
        /\ nextValidatorIndex = ExampleNextValidatorIndex

\* the example run has returned after submitting its batch
C9_Witness == StakeExample /\ returned = "value" /\ ~isDryRun /\ writeCalls > 0

\* C3: with an empty on-chain validator set (V = 0) validator assignment fails
\* fast: no account is processed and zero transactions are submitted in the run.
C3_NoValidatorsNoTransactions ==
    (op \in {"stakeAndNominate", "createHybridStakers"} /\ Len(chainValidators) = 0) =>
        /\ writeCalls = 0
        /\ stakedCount = 0
        /\ createdHybrids = 0

CeilDiv(n, b) == (n + b - 1) \div b

CreateEnded == op = "createAccounts" /\ pc = "done"

\* C4: N funding operations and batch size B > 0 give exactly ceil(N/B) batches;
\* every batch but the last has size B, the last has size N mod B (B if that is 0).
C4_BatchCountAndSizes ==
    CreateEnded =>
        LET N == Len(availableIndices)
            B == transferBatchSize
        IN /\ Len(batches) = CeilDiv(N, B)
           /\ \A k \in 1..Len(batches) :
                 Len(batches[k]) =
                    IF k < Len(batches) THEN B
                    ELSE IF N % B = 0 THEN B ELSE N % B

RECURSIVE Flatten(_)
Flatten(ss) == IF ss = <<>> THEN <<>> ELSE Head(ss) \o Flatten(Tail(ss))

\* C5: every input operation appears in exactly one batch, and the batches
\* concatenated in submission order reproduce the input order.
C5_BatchesCoverInputInOrder ==
    CreateEnded => Flatten(batches) = availableIndices

\* C6: with dry-run enabled no operation ever calls a transaction-submission
\* primitive of the chain client.
C6_DryRunSubmitsNothing ==
    isDryRun => (writeCalls = 0 /\ txs = <<>>)

\* a dry run that planned its batches and ended
C6_Witness ==
    /\ isDryRun /\ pc = "done"
    /\ op = "createAccounts" /\ Len(batches) >= 2

\* C7: a dry run produces the same planning output (here: the reported counts of
\* pools that would be destroyed and of pools that cannot be) as the same
\* operation run without dry-run on the same inputs and chain state.
C7_DryRunReportsRealPlan ==
    (op = "destroyPools" /\ pc = "done" /\ isDryRun) =>
        LET planned(outcome) ==
                Cardinality({k \in 1..Len(poolIds) :
                                DestroyPlan(poolKind[poolIds[k]], FALSE) = outcome})
        IN /\ results.destroyed = planned("destroy")
           /\ results.failed = planned("failed")
           /\ results.notFound = planned("notFound")
           /\ results.notOwned = planned("notOwned")

SoloOps == {"createAccounts", "stakeAndNominate", "topupAccounts"}

\* a step of a solo-nominator operation treats a timer that fires as the claim
\* says: the pending wait is resolved, and a wait that ended by timeouts only is
\* left for the loop that builds the next batch, with nothing thrown
TimeoutStepProceeds ==
    op \in SoloOps =>
        /\ \A i \in DOMAIN txs :
              (/\ i \in DOMAIN txs'
               /\ txs[i].promise = "pending" /\ txs[i].timer = "armed"
               /\ txs'[i].timer = "fired")
              => txs'[i].promise = "resolved"
        /\ (/\ pc = "await" /\ pc' # "await"
            /\ \A i \in DOMAIN txs : txs[i].settledBy = "timeout")
           => (returned' = "no" /\ pc' \in {"loop", "create", "topup"})

\* C8: when no terminal event arrives, the wait for a transaction ends when its
\* 30 s timer fires, without throwing, and the run proceeds to the next batch.
C8_TimeoutEndsWaitWithoutThrow == [][TimeoutStepProceeds]_vars

\* the timer of a funding batch has fired while later batches remain to be built
C8_Witness ==
    /\ op = "createAccounts" /\ pc = "await"
    /\ txs[1].settledBy = "timeout" /\ txs[1].promise = "resolved"
    /\ processedIndices < Len(availableIndices)

\* C10: with skip-check-account set no account-existence query is issued and the
\* indices marked available are exactly startIndex .. startIndex + targetCount - 1.
C10_SkipCheckMarksWholeRange ==
    skipCheckAccount =>
        /\ existenceQueries = 0
        /\ (op = "createAccounts" /\ pc # "start") =>
              /\ Range(availableIndices) = startIndex..(startIndex + targetCount - 1)
              /\ Len(availableIndices) = targetCount

\* the range was marked available although some of its accounts exist on chain
C10_Witness ==
    /\ op = "createAccounts" /\ skipCheckAccount /\ pc = "done"
    /\ targetCount >= 2
    /\ Range(availableIndices) \cap existsOnChain # {}

\* the cursor after K accounts, whatever became of their transactions
CursorAfterAll ==
    IF Len(createdAccountIndices) = 0 THEN validatorStartIndex
    ELSE (validatorStartIndex + Len(createdAccountIndices) * validatorsPerNominator)
            % Len(chainValidators)

\* C11: the cursor advances by P (mod V) for every account of the list whatever
\* its outcome: once the validators are assigned the cursor has its final value,
\* no inclusion, rejection, timeout or skip changes it, and that value is returned.
C11_CursorIgnoresOutcome ==
    (StakeAssigned \/ StakeReturned) =>
        /\ currentValidatorIndex = CursorAfterAll
        /\ StakeReturned => nextValidatorIndex = CursorAfterAll

\* a batch in which one transaction failed and one timed out, after an account
\* was skipped as already bonded
C11_Witness ==
    /\ op = "stakeAndNominate" /\ pc = "await"
    /\ skippedCount >= 1
    /\ \E i, j \in DOMAIN txs :
          txs[i].settledBy = "error" /\ txs[j].settledBy = "timeout"

\* C12: a failed batch (a non-infrastructure error for its transaction) does not
\* abort the run: the operation ends by returning, never by throwing.
C12_FailedBatchDoesNotAbort ==
    (op \in {"createAccounts", "topupAccounts"} /\ pc = "done") => returned # "thrown"

\* C13: a 30 s timeout of an awaited transaction never rejects the wait and is
\* never counted as a failure or an error.
C13_TimeoutIsNotAFailure ==
    op \in {"destroyPools", "removeFromPool", "unbondAccounts"} =>
        \A i \in DOMAIN txs :
            txs[i].settledBy = "timeout" => txs[i].promise = "resolved"

\* the four substrings the specification names as infrastructure errors
InfrastructureSubstrings ==
    {"ChainHead operation inaccessible", "OperationInaccessibleError",
     "connection", "network"}

\* the state of a watched transaction after its error handler has run, in the
\* wait of the operation that is running
AfterError(tx, errorMessage) ==
    IF op \in ExecOps THEN PoolOnError(tx, errorMessage)
    ELSE SoloOnError(tx, errorMessage)

\* C14: in every transaction wait an error that holds one of the four
\* infrastructure substrings ends the wait normally (resolved), and every other
\* error is surfaced as a failure (rejected).
C14_InfrastructureErrorsDowngraded ==
    op \in SoloOps \cup ExecOps =>
        \A i \in DOMAIN txs :
            (Delivers(txs[i]) /\ ~txs[i].completed) =>
                \A m \in ErrorMessages :
                    AfterError(txs[i], m).promise =
                        IF m \in InfrastructureSubstrings THEN "resolved"
                        ELSE "rejected"

\* C15: a unit of work whose transaction the chain rejected is not counted as
\* succeeded: the staked counter never exceeds the accounts batched so far less
\* those of the batch in flight whose transaction was rejected.
C15_RejectedUnitNotCountedStaked ==
    (op = "stakeAndNominate" /\ pc = "await") =>
        stakedCount <= Len(Flatten(batches))
                         - Cardinality({i \in DOMAIN txs : txs[i].promise = "rejected"})

\* C16: at every moment the number of submitted transactions whose wait has not
\* ended is at most the parallel-batches value.
C16_OutstandingWaitsBounded ==
    op = "stakeAndNominate" =>
        Cardinality({i \in DOMAIN txs : txs[i].promise = "pending"}) <= parallelBatches

\* a step taken while a batch of per-account transactions is in flight: an
\* event changes the transaction it belongs to and no other, and the batch is
\* left only for the loop, with nothing thrown, once every transaction of it
\* has settled
StakeSiblingsUnaffected ==
    (op = "stakeAndNominate" /\ pc = "await") =>
        /\ Len(txs) = Len(batch)
        /\ pc' = "await" =>
              /\ Len(txs') = Len(txs)
              /\ \A i, j \in DOMAIN txs :
                    (i # j /\ txs'[i] # txs[i]) => txs'[j] = txs[j]
        /\ pc' # "await" =>
              /\ pc' = "loop" /\ returned' = "no"
              /\ \A i \in DOMAIN txs : txs[i].promise # "pending"

\* C17: the rejection, failure or timeout of one account's transaction never
\* prevents or cancels the submission and waiting of another account's
\* transaction of the same batch.
C17_FailureIsolatedPerAccount == [][StakeSiblingsUnaffected]_vars

\* one transaction was rejected, and a sibling was included afterwards or is
\* still being waited for
C17_Witness ==
    /\ op = "stakeAndNominate" /\ pc = "await"
    /\ \E i, j \in DOMAIN txs :
          /\ i < j
          /\ txs[i].promise = "rejected"
          /\ txs[j].settledBy = "included"

\* the units of work whose transaction has been handed to the chain client: a
\* batch of transfers is one transaction, a staked account is one transaction
SubmittedUnits ==
    IF op = "stakeAndNominate" THEN Len(Flatten(batches)) ELSE Len(batches)

NoDuplicates(seq) ==
    \A i, j \in DOMAIN seq : i # j => seq[i] # seq[j]

\* C18: within one run no transaction is submitted more than once: the number
\* of submissions never exceeds the number of units of work batched, and no
\* account is put into a batch twice, whatever failed or timed out before.
C18_NoResubmission ==
    op \in SoloOps =>
        /\ writeCalls <= SubmittedUnits
        /\ NoDuplicates(Flatten(batches))

\* the transaction of the second batch has timed out or met an infrastructure
\* error, and two batches have been submitted exactly twice in all
C18_Witness ==
    /\ op \in {"createAccounts", "topupAccounts"} /\ pc = "await"
    /\ Len(batches) = 2 /\ writeCalls = 2
    /\ txs[1].settledBy \in {"timeout", "infraError"}

\* the operations that take the fire-and-forget flag
NoWaitOps == {"createAccounts", "stakeAndNominate", "createHybridStakers", "createPools"}

\* C19: with fire-and-forget set no lifecycle subscription is opened and no
\* timer for block inclusion is armed: a transaction in flight is only ever
\* settled by the chain client's answer to its submission.
C19_NoWaitOpensNoSubscription ==
    (op \in NoWaitOps /\ noWait) =>
        \A i \in DOMAIN txs :
            /\ ~txs[i].subscribed
            /\ txs[i].stream = "none"
            /\ txs[i].timer = "none"
            /\ txs[i].settledBy \in {"none", "submitted", "submitFailed"}

\* a fire-and-forget submission that the client has acknowledged
C19_Witness ==
    /\ op \in NoWaitOps /\ noWait
    /\ \E i \in DOMAIN txs : txs[i].settledBy = "submitted"

\* C20: with existence checking enabled, no account that exists on chain is put
\* into a funding transfer.
C20_ExistingAccountNeverFunded ==
    (op = "createAccounts" /\ ~skipCheckAccount) =>
        Range(Flatten(batches)) \cap existsOnChain = {}

\* the N lowest-indexed accounts at or after the start index that do not exist
\* on chain (N + |existing| consecutive indices always hold N of them)
LowestFree ==
    LET window == AccountList(startIndex, targetCount + Cardinality(existsOnChain))
        isFree(a) == a \notin existsOnChain
    IN SubSeq(SelectSeq(window, isFree), 1, targetCount)

\* C21: with existence checking enabled the funded accounts are exactly the N
\* lowest-indexed non-existing accounts at or after the start index.
C21_FundsLowestFreeAccounts ==
    (op = "createAccounts" /\ ~skipCheckAccount /\ returned = "value") =>
        Flatten(batches) = LowestFree

\* the window of the i-th nominator (1-based) as the claim states it
ClaimedWindow(i) ==
    [j \in 1..Min(validatorsPerNominator, Len(chainValidators)) |->
        chainValidators[((validatorStartIndex + (i - 1) * validatorsPerNominator
                            + (j - 1)) % Len(chainValidators)) + 1]]

\* C22: the validators assigned to the i-th nominator (0-based) are those at
\* positions (S + i*P + j) mod V for j = 0 .. min(P, V) - 1, in that order.
C22_WindowPositions ==
    StakeAssigned =>
        \A i \in 1..Len(createdAccountIndices) :
            validatorAssignments[createdAccountIndices[i]] = ClaimedWindow(i)

\* a second nominator whose window starts past a non-zero start cursor and
\* wraps around the end of the validator set
C22_Witness ==
    /\ StakeAssigned
    /\ Len(createdAccountIndices) >= 2
    /\ validatorStartIndex > 0
    /\ Len(chainValidators) >= 2
    /\ validatorsPerNominator <= Len(chainValidators)
    /\ ((validatorStartIndex + validatorsPerNominator) % Len(chainValidators))
          + validatorsPerNominator > Len(chainValidators)

\* the accounts a following invocation is given: the K2 accounts after the
\* last one of this run
FollowingAccounts(k2) ==
    AccountList(createdAccountIndices[Len(createdAccountIndices)] + 1, k2)

\* C23: K1 nominators from cursor S and then K2 nominators from the returned
\* cursor get the validators that one invocation over all K1 + K2 nominators
\* from S assigns.
C23_InvocationsCompose ==
    (StakeReturned /\ Len(createdAccountIndices) >= 1) =>
        \A k2 \in 0..MaxNominators :
            LET second == AssignLoop(FollowingAccounts(k2), 1, nextValidatorIndex,
                                     validatorsPerNominator, allValidators, EmptyTable)
                whole == AssignLoop(createdAccountIndices \o FollowingAccounts(k2), 1,
                                    validatorStartIndex, validatorsPerNominator,
                                    allValidators, EmptyTable)
            IN /\ \A a \in Range(createdAccountIndices) :
                      validatorAssignments[a] = whole.assignments[a]
               /\ \A a \in Range(FollowingAccounts(k2)) :
                      second.assignments[a] = whole.assignments[a]
               /\ second.cursor = whole.cursor

\* a first invocation over two accounts that returned a cursor other than the
\* one it started from
C23_Witness ==
    /\ StakeReturned
    /\ Len(createdAccountIndices) >= 2
    /\ nextValidatorIndex # validatorStartIndex
    /\ nextValidatorIndex > 0

\* the number of nominators whose window holds validator v
Nominations(v) ==
    Cardinality({i \in 1..Len(createdAccountIndices) :
                    v \in Range(validatorAssignments[createdAccountIndices[i]])})

\* C24: after validator assignment the numbers of nominations of any two
\* validators of the on-chain set differ by at most 1.
\* (counts that sum to T over V validators differ by at most 1 exactly when
\* each of them is the quotient T / V rounded down or up)
C24_NominationsBalanced ==
    (op = "stakeAndNominate" /\ pc = "loop") =>
        LET V == Len(chainValidators)
            T == Len(createdAccountIndices) * Min(validatorsPerNominator, V)
        IN \A v \in Range(chainValidators) :
               Nominations(v) \in {T \div V, (T + V - 1) \div V}

\* three nominators over a larger-than-window validator set: some validator
\* has two nominations and another has one
C24_Witness ==
    /\ op = "stakeAndNominate" /\ pc = "loop"
    /\ Len(createdAccountIndices) >= 3
    /\ validatorsPerNominator < Len(chainValidators)
    /\ \E v, w \in Range(chainValidators) : Nominations(v) = 2 /\ Nominations(w) = 1

\* C25 (as stated): every account's planned stake amount is computed before
\* the first transaction of the run is submitted.
C25_AmountsSetBeforeFirstSubmission ==
    (op = "createAccounts" /\ writeCalls >= 1) =>
        Range(availableIndices) \subseteq DOMAIN stakeAmounts

\* a step keeps every stake amount that is set, and every account of a batch
\* handed to execution has its amount
StakeAmountStep ==
    op = "createAccounts" =>
        /\ \A a \in DOMAIN stakeAmounts :
              a \in DOMAIN stakeAmounts' /\ stakeAmounts'[a] = stakeAmounts[a]
        /\ \A a \in Range(Flatten(batches')) : a \in DOMAIN stakeAmounts'

\* C25 (amended): every account's planned stake amount is computed before the
\* transaction that funds that account is submitted -- while its batch is
\* built, so after the earlier batches were submitted -- and, once set, is
\* never changed for the rest of the run.
C25_AmountSetOncePerAccount == [][StakeAmountStep]_vars

\* a second batch has been submitted: its accounts got their amounts after the
\* first transaction of the run
C25_Witness ==
    /\ op = "createAccounts"
    /\ Len(batches) >= 2 /\ writeCalls >= 2
    /\ Range(Flatten(batches)) = DOMAIN stakeAmounts
    /\ \E a, b \in DOMAIN stakeAmounts : stakeAmounts[a] # stakeAmounts[b]

\* the process has ended
Exited == mainPc = "exited"

\* C26: every validation error in the command line (conflicting flags,
\* malformed range or pool:members string, missing --from/--to) ends the
\* process with exit code 1 before any network call is made.
C26_ValidationErrorExitsOne ==
    (Exited /\ cliError # "none") =>
        /\ exitCode = 1
        /\ opened = 0 /\ writeCalls = 0 /\ existenceQueries = 0

\* C27 (as stated): an error during execution, after validation has passed, is
\* only logged, and the process still exits with code 0.
C27_ExecutionErrorExitsZero ==
    (Exited /\ cliError = "none" /\ mode # "pool") => exitCode = 0

\* the connection could not be set up: main() ended without entering an
\* operation
SetupFailed == pc = "main"

\* C27 (amended): after validation has passed, an error the operation handles
\* itself is only logged and the process exits with code 0; the process exits
\* with code 1 exactly when connection setup failed or an error was thrown out
\* of the operation.
C27_ExitOneIffThrown ==
    (Exited /\ cliError = "none" /\ mode # "pool") =>
        /\ exitCode \in {0, 1}
        /\ exitCode = 1 <=> (SetupFailed \/ returned = "thrown")

\* destroyPools counted a failed pool, logged it, and the process ended with 0
C27_Witness ==
    /\ Exited /\ cliError = "none"
    /\ op = "destroyPools" /\ returned # "thrown"
    /\ results.failed > 0
    /\ exitCode = 0

\* C28: in every run that opens a connection, the connection is opened exactly
\* once and torn down exactly once before the process ends, on every exit
\* path including errors.
C28_ConnectionOpenedAndClosedOnce ==
    Exited => (opened <= 1 /\ closed = opened)

\* C29: the transfer batch size, stake batch size and parallel-batches value a
\* run uses never exceed their maxima (1500, 250 and 10).
C29_BatchOptionsWithinMaxima ==
    (mode \in SoloModes /\ mainPc = "run" /\ pc # "done") =>
        /\ op = "createAccounts" => transferBatchSize <= MaxTransferBatch
        /\ op = "stakeAndNominate" => stakeBatchSize <= MaxStakeBatch
        /\ parallelBatches <= MaxParallelBatches

\* C30: top-up mode submits no transfer when the god account's free balance is
\* less than the total top-up amount needed.
C30_NoTopupBeyondGodBalance ==
    (op = "topupAccounts" /\ godBalance < totalTopupNeeded) => writeCalls = 0


(* ---------------------------------------------------------------------- *)
(* listAccounts: findAccountRange                                          *)
(* ---------------------------------------------------------------------- *)
\* line 565: "Maximum expected accounts"
MaxExpectedAccounts == 100000

\* the chain as the search sees it: the accounts 1 .. populated of the prefix
\* have a nonce or a balance, the others have none
IsPopulated(n) == n >= 1 /\ n <= populated

\* line 572: [mid, mid - 1, mid + 1].filter((n) => n >= 1)
CheckPoints(mid) == SelectSeq(<<mid, mid - 1, mid + 1>>, LAMBDA n : n >= 1)

\* lines 580-582: some probed account has a nonce or a balance
HasAccount(mid) == \E n \in Range(CheckPoints(mid)) : IsPopulated(n)

\* the search records the midpoint itself
LastFoundIsMid(mid) == mid

\* lines 585-589: Math.max over the probed indices that are populated
LastFoundAt(mid) ==
    LET found == {n \in Range(CheckPoints(mid)) : IsPopulated(n)}
    IN CHOOSE n \in found : \A m \in found : m <= n

\* the numbers of populated accounts the search is run against: few, about
\* half of the range, and all or nearly all of it
PopulatedInputs ==
    (0..MaxPopulated)
        \cup ((MaxExpectedAccounts \div 2 - MaxPopulated)
                   ..(MaxExpectedAccounts \div 2 + MaxPopulated))
        \cup ((MaxExpectedAccounts - MaxPopulated)..MaxExpectedAccounts)

\* lines 560-567: low = 1, high = 100000, lastFound = 0
InitRange ==
    /\ op = "findAccountRange" /\ pc = "search" /\ returned = "no"
    /\ populated \in PopulatedInputs
    /\ low = 1 /\ high = MaxExpectedAccounts /\ lastFound = 0
    /\ mode = "none" /\ cliError = "none" /\ mainPc = "none"
    /\ exitCode = 0 /\ opened = 0 /\ closed = 0 /\ godBalance = 0
    /\ stakeAmounts = <<>>
    /\ transferBatch = 0 /\ stakeBatch = 0
    /\ lastPoolId = 0 /\ MembersUnused
    /\ isDryRun = FALSE /\ noWait = FALSE /\ skipCheckAccount = FALSE
    /\ parallelBatches = 1
    /\ writeCalls = 0 /\ txs = <<>>
    /\ SoloUnused /\ HybridUnused /\ PoolCmdUnused

rangeFrame ==
    <<op, returned, flagVars, mainVars, memberVars, populated, stakeAmounts, chainVars,
      writeCalls, batchVars, stakeInputs, stakeLocals, createVars, topupVars,
      hybridVars, poolCmdVars>>

\* lines 569-593: one pass of the binary search; the three probes are one
\* existence query each
RangeProbe ==
    /\ op = "findAccountRange" /\ pc = "search"
    /\ low <= high
    /\ LET mid == (low + high) \div 2
       IN /\ existenceQueries' = existenceQueries + Len(CheckPoints(mid))
          /\ IF HasAccount(mid)
             THEN /\ lastFound' = LastFoundAt(mid)
                  /\ low' = mid + 1
                  /\ UNCHANGED high
             ELSE /\ high' = mid - 1
                  /\ UNCHANGED <<low, lastFound>>
    /\ UNCHANGED <<pc, rangeFrame>>

\* line 569: the loop ends when low > high
RangeSearchEnd ==
    /\ op = "findAccountRange" /\ pc = "search"
    /\ low > high
    /\ pc' = "done"
    /\ UNCHANGED <<rangeFrame, existenceQueries, low, high, lastFound>>

NextRange ==
    \/ RangeProbe
    \/ RangeSearchEnd

\* every pass awaits its three queries and then runs on
SpecRange == InitRange /\ [][NextRange]_vars /\ WF_vars(NextRange)

C32_StakeTerminates == <>(pc = "done")

\* C33: the stake amount stake-only mode computes for an account index (from
\* the same --start-index) equals the amount account creation assigned to
\* that index.
C33_StakeOnlyAmountMatchesCreation ==
    (mode \in {"createOnly", "default"} /\ op = "createAccounts") =>
        \A a \in DOMAIN stakeAmounts : stakeAmounts[a] = StakeOnlyAmount(a - startIndex)

\* the wait for a funding batch ends and createAccounts goes on: the accounts
\* of the batch stay in createdAccountIndices, which main() hands to
\* stakeAndNominate
BatchKeptForStaking ==
    /\ mode = "default" /\ op = "createAccounts" /\ ~isDryRun
    /\ pc = "await" /\ pc' = "create"

\* C34: in a non-dry run, every account counted as created and handed to the
\* staking phase belongs to a funding batch whose submission the chain client
\* accepted.
C34_CreatedBatchWasAccepted ==
    [][BatchKeptForStaking => txs[1].settledBy # "submitFailed"]_vars

\* a step that delivers an event or a timer to the transactions in flight:
\* the same transactions are awaited before and after it
EventStep ==
    /\ pc = "await" /\ pc' = "await"
    /\ Len(txs') = Len(txs)
    /\ writeCalls' = writeCalls /\ chunkStart' = chunkStart /\ txStep' = txStep
    /\ loopIndex' = loopIndex

\* the counters of the operations
Counters ==
    <<results, stakedCount, skippedCount, createdCount, processedCount, createdHybrids,
      createdPools, createdMembers>>

SettledOnce ==
    EventStep =>
        /\ \A k \in 1..Len(txs) :
              /\ (txs'[k].settledBy # "none") <=> (txs'[k].promise # "pending")
              /\ txs[k].settledBy # "none" =>
                    /\ txs'[k].settledBy = txs[k].settledBy
                    /\ txs'[k].promise = txs[k].promise
        /\ (\A k \in 1..Len(txs) : txs[k].settledBy # "none") =>
              /\ Counters' = Counters
              /\ returned' = returned

C36_WaitEndReleasesTimerAndSubscription ==
    \A k \in 1..Len(txs) :
        txs[k].promise # "pending" => (txs[k].timer # "armed" /\ ~txs[k].subscribed)

\* C37: in unbondAccounts the error counter increases by exactly one for each
\* account whose transaction fails or times out, so the error count never
\* exceeds the number of accounts processed.
C37_ErrorsAtMostAccounts ==
    (op = "unbondAccounts" /\ pc \in {"loop", "done"} /\ results # NoResults) =>
        results.errors <= Min(loopIndex - 1, Len(accountsToUnbond))

\* C38: when destroyPools finishes, checked equals the number of pool ids
\* given, and every checked pool was counted under exactly one of destroyed,
\* failed, notFound and notOwned.
C38_DestroyCountersAddUp ==
    (op = "destroyPools" /\ pc = "done") =>
        /\ results.checked = Len(poolIds)
        /\ results.checked = results.destroyed + results.failed
                                + results.notFound + results.notOwned

\* a finished live run that submitted for at least two pools, one counted
\* failed and one counted destroyed
C38_Witness ==
    /\ op = "destroyPools" /\ pc = "done" /\ ~isDryRun
    /\ Len(poolIds) >= 2
    /\ results.destroyed >= 1 /\ results.failed >= 1
    /\ writeCalls >= 2

\* C39: the account-existence scan ends, and it has issued at most maxChecks
\* (10000) existence queries when it does, whether or not targetCount
\* available indices were found.
C39_ScanEndsWithinMaxChecks ==
    /\ [](op = "createAccounts" => existenceQueries <= maxChecks)
    /\ <>(op = "createAccounts" /\ pc \in {"create", "done"})

\* the scan has stopped at the limit without finding any available index
C39_Witness ==
    /\ op = "createAccounts" /\ pc = "done"
    /\ existenceQueries = maxChecks /\ totalChecked = maxChecks
    /\ availableIndices = <<>>

\* C40: when the populated indices are the gap-free prefix 1..M with
\* 0 <= M <= 100000, the binary search of findAccountRange ends, and it ends
\* with lastFound = M.
C40_BinarySearchFindsPrefixEnd ==
    /\ [](op = "findAccountRange" /\ pc = "done" => lastFound = populated)
    /\ <>(op = "findAccountRange" /\ pc = "done")

\* the search has ended on a chain whose whole range 1..100000 is populated
C40_Witness ==
    /\ op = "findAccountRange" /\ pc = "done"
    /\ populated = MaxExpectedAccounts /\ lastFound = MaxExpectedAccounts
    /\ low > high

====
